---- MODULE Spec2Model ----
(***************************************************************************)
(* Cosmic Particles (YuqingLong18/particles): the App selection state, the *)
(* ParticleField target-buffer builder (useEffect), the per-frame animator *)
(* (useFrame) and the audio module, as a state machine.                    *)
(*                                                                         *)
(* Numbers.  The buffers are Float32Arrays: every store rounds to the      *)
(* nearest representable value, ties to even.  The model keeps that        *)
(* rounding on a dyadic grid of step 1/Unit (Unit = 2^FracBits), so a      *)
(* coordinate 10 is the integer 10 * Unit.  Frame deltas and the step      *)
(* factor 3.0 * delta are exact rationals <<numerator, denominator>>.      *)
(***************************************************************************)
EXTENDS Integers, Sequences, FiniteSets, TLC

VARIABLES
    mode, shape, moleculeType, customMolecule,   \* App.jsx useState, the props of ParticleField
    isLoading, error,                            \* App.jsx AI request state
    moleculeQuery, apiKey,                       \* App.jsx: the text of the input, whether the key is set
    pending,                                     \* the queries of the fetchMoleculeData calls not yet settled
    reply,                                       \* what the last AI request was answered with
    targetPositions, targetColors,               \* ParticleField TargetBuffer
    positions, colors,                           \* ParticleField LiveBuffer
    audioContext, analyser, dataArray, source,   \* audio.js module variables (TRUE = set, FALSE = null)
    micPending,                                  \* initAudio suspended at await getUserMedia
    build,                                       \* record of the last run of the builder effect
    frame,                                       \* record of the last frame tick
    ticks,                                       \* number of frame ticks so far
    useHandControl,                              \* App.jsx useState: HandController is mounted
    handLoop,                                    \* the predictWebcam loop of HandController runs
    gesture,                                     \* store.js useGestureStore: rotation, scale, position
    group,                                       \* the parent group's rotation, scale, position
    call                                         \* a utility function's arguments and what it returned

vars == <<mode, shape, moleculeType, customMolecule, isLoading, error, reply,
          moleculeQuery, apiKey, pending,
          targetPositions, targetColors, positions, colors,
          audioContext, analyser, dataArray, source, micPending,
          build, frame, ticks, call, useHandControl, handLoop, gesture, group>>

appVars   == <<mode, shape, moleculeType, customMolecule>>
aiVars    == <<isLoading, error, reply, moleculeQuery, apiKey, pending>>
targetVars == <<targetPositions, targetColors>>
liveVars  == <<positions, colors>>
audioVars == <<audioContext, analyser, dataArray, source, micPending>>
handVars  == <<useHandControl, handLoop, gesture>>

----------------------------------------------------------------------------
(* Bounds of the model *)

NUM_PARTICLES == 3      \* particle capacity N (30000 in ParticleField.jsx:12)
FracBits == 2           \* binary digits kept after the point by a buffer store
MaxFrames == 1          \* frame ticks interleaved with selection changes (SpecFrames)
MaxGestureTicks == 3     \* frame ticks interleaved with gesture updates (SpecGesture)
GestureDigits == 2       \* decimal digits kept after the point by a transform value
MaxTicks == 2           \* consecutive frame ticks of the animator alone (SpecAnim)
BinCount == 2           \* analyser.frequencyBinCount (fftSize 512 / 2 in audio.js:12)

(* Program constants *)
StarCount == 26         \* starData.length

N == NUM_PARTICLES
Unit == 2 ^ FracBits
Slots == 0 .. (N - 1)
\* outcomes of Math.random explored per generator call
Seeds == {0, 1}

Null == "null"

----------------------------------------------------------------------------
(* Arithmetic helpers *)

Abs(x) == IF x < 0 THEN -x ELSE x
Min(a, b) == IF a < b THEN a ELSE b
Max(a, b) == IF a > b THEN a ELSE b

\* floor(a / b) and ceil(a / b) for b > 0
FloorDiv(a, b) == a \div b
CeilDiv(a, b) == -((-a) \div b)

\* a / b rounded to the nearest integer, ties to the even one (b > 0):
\* what a Float32Array store does to a value between two grid points.
RoundHalfEven(a, b) ==
    LET q == a \div b
        r == a % b
    IN  IF 2 * r < b THEN q
        ELSE IF 2 * r > b THEN q + 1
        ELSE IF q % 2 = 0 THEN q ELSE q + 1

Vec(x, y, z) == <<x, y, z>>
ZeroVec == Vec(0, 0, 0)
Axes == 1 .. 3

----------------------------------------------------------------------------
(* Values a generator can emit.  Math.random is a choice of a seed; a      *)
(* generated list alternates between two points (two colours) of the pool, *)
(* starting where the seed says.                                           *)

PoolPoint(j) == IF j % 2 = 0 THEN Vec(10 * Unit, 0, -10 * Unit)
                ELSE Vec(-5 * Unit, 5 * Unit, 0)
PoolColor(j) == IF j % 2 = 0 THEN Vec(Unit, Unit \div 2, 0)
                ELSE Vec(0, Unit \div 2, Unit)
White == Vec(Unit, Unit, Unit)

RandomPoints(len, seed) == [i \in 1 .. len |-> PoolPoint(i + seed)]
RandomColors(len, seed) == [i \in 1 .. len |-> PoolColor(i + seed)]

----------------------------------------------------------------------------
(* curves.js: the math catalog *)

Generators ==
    {"koch", "cardioid", "butterfly", "spiral", "catenary", "lemniscate",
     "rose", "klein", "lorenz", "mandelbulb", "orbitals", "julia"}

\* resample(points, targetCount): targetCount entries, none for an empty source
resampleLength(sourceLen, targetCount) ==
    IF sourceLen = 0 THEN 0 ELSE targetCount

\* What a generator does to its points before it returns them: the extent it
\* hands to normalizePoints (10 is the default), Null when it returns them as
\* resample left them
GeneratorExtent(gen) ==
    CASE gen = "koch" -> Null
      [] gen = "klein" -> 8
      [] OTHER -> 10

KochSourceLength == 6 * (4 ^ 5)

\* The number of points generator gen returns for numPoints requested;
\* kept is the number of samples the escape-time filter retains.
GeneratorLength(gen, numPoints, kept) ==
    CASE gen = "koch" -> resampleLength(KochSourceLength, numPoints)
      [] gen = "mandelbulb" ->
            IF 2 * kept < numPoints THEN CeilDiv(numPoints, 2) ELSE kept
      [] gen = "julia" ->
            IF 3 * kept < numPoints THEN CeilDiv(numPoints, 3) ELSE kept
      [] gen = "orbitals" ->
            CeilDiv(numPoints * 2, 10) + CeilDiv(numPoints * 3, 10)
              + CeilDiv(numPoints * 25, 100) + CeilDiv(numPoints * 25, 100)
      [] OTHER -> numPoints

----------------------------------------------------------------------------
(* molecules.js *)

\* RADII, in twentieths (every radius is a multiple of 0.05, and the cubes
\* times 30000 stay within 32 bits); 0.7 for an element that is not listed
RADII(element) ==
    CASE element = "H" -> 10
      [] element = "C" -> 17
      [] element = "O" -> 15
      [] element = "N" -> 15
      [] element = "Cl" -> 18
      [] element = "Na" -> 20
      [] OTHER -> 14

\* hasBonds: the structure has a bonds array (every catalog entry has one)
Molecule(atoms, bonds) ==
    [defined |-> TRUE, hasBonds |-> TRUE, atoms |-> atoms, bonds |-> bonds]
\* what MOLECULES[type] is for a type that is no key of the catalog
Undefined == [defined |-> FALSE, hasBonds |-> FALSE, atoms |-> <<>>, bonds |-> <<>>]
\* a custom molecule object: obj tells one fetched object from the next, 0 is null
CustomData(obj, molecule) == [obj |-> obj, mol |-> molecule]
NullCustom == CustomData(0, Undefined)

MoleculeIds == {"H2O", "CO2", "Methane", "NH3", "O2", "N2", "HCl", "Ethanol"}

\* MOLECULES: the elements of the atoms and the bonds <<index1, index2, order>>
MOLECULES(type) ==
    CASE type = "H2O" -> Molecule(<<"O", "H", "H">>, <<<<0, 1, 1>>, <<0, 2, 1>>>>)
      [] type = "CO2" -> Molecule(<<"C", "O", "O">>, <<<<0, 1, 2>>, <<0, 2, 2>>>>)
      [] type = "Methane" ->
            Molecule(<<"C", "H", "H", "H", "H">>,
                     <<<<0, 1, 1>>, <<0, 2, 1>>, <<0, 3, 1>>, <<0, 4, 1>>>>)
      [] type = "NH3" ->
            Molecule(<<"N", "H", "H", "H">>, <<<<0, 1, 1>>, <<0, 2, 1>>, <<0, 3, 1>>>>)
      [] type = "O2" -> Molecule(<<"O", "O">>, <<<<0, 1, 2>>>>)
      [] type = "N2" -> Molecule(<<"N", "N">>, <<<<0, 1, 3>>>>)
      [] type = "HCl" -> Molecule(<<"H", "Cl">>, <<<<0, 1, 1>>>>)
      [] type = "Ethanol" ->
            Molecule(<<"C", "C", "O", "H", "H", "H", "H", "H", "H">>,
                     <<<<0, 1, 1>>, <<1, 2, 1>>, <<2, 3, 1>>, <<0, 4, 1>>,
                       <<0, 5, 1>>, <<0, 6, 1>>, <<1, 7, 1>>, <<1, 8, 1>>>>)
      [] OTHER -> Undefined

RECURSIVE SumSeq(_)
SumSeq(s) == IF s = <<>> THEN 0 ELSE Head(s) + SumSeq(Tail(s))

Cube(r) == r * r * r

\* Variant of the allocation that shares the atom points by radius, not by volume
AtomPointCountsByRadius(molecule, numPoints) ==
    LET totalAtomPoints == FloorDiv(numPoints * 7, 10)
        radii == [a \in 1 .. Len(molecule.atoms) |-> RADII(molecule.atoms[a])]
    IN  [a \in 1 .. Len(molecule.atoms) |->
            FloorDiv(totalAtomPoints * radii[a], SumSeq(radii))]

\* points of each atom: floor(floor(0.7 n) * r^3 / sum of r^3)
AtomPointCounts(molecule, numPoints) ==
    LET totalAtomPoints == FloorDiv(numPoints * 7, 10)
        volumes == [a \in 1 .. Len(molecule.atoms) |-> Cube(RADII(molecule.atoms[a]))]
        totalVolume == SumSeq(volumes)
    IN  [a \in 1 .. Len(molecule.atoms) |->
            FloorDiv(totalAtomPoints * volumes[a], totalVolume)]

\* Variant of the bond allocation that gives every cylinder the whole budget
BondPointCountsWhole(molecule, numPoints) ==
    LET totalBonds == Len(molecule.bonds)
        budget == IF totalBonds > 0
                  THEN FloorDiv(numPoints * 3, 10 * totalBonds) ELSE 0
    IN  [b \in 1 .. totalBonds |->
            LET order == molecule.bonds[b][3]
            IN  (IF order \in {1, 2, 3} THEN order ELSE 0) * budget]

\* points of each bond: one cylinder of floor(pointsPerBond / order) points per offset
BondPointCounts(molecule, numPoints) ==
    LET totalBonds == Len(molecule.bonds)
        pointsPerBond == IF totalBonds > 0
                         THEN FloorDiv(numPoints * 3, 10 * totalBonds) ELSE 0
    IN  [b \in 1 .. totalBonds |->
            LET order == molecule.bonds[b][3]
                offsets == IF order \in {1, 2, 3} THEN order ELSE 0
            IN  offsets * FloorDiv(pointsPerBond, order)]

\* line 125: the budget of every bond
pointsPerBond(molecule, numPoints) ==
    IF Len(molecule.bonds) > 0
    THEN FloorDiv(numPoints * 3, 10 * Len(molecule.bonds)) ELSE 0

\* Variant of the offsets that draws a double bond like a triple one
BondOffsetsTriple(order) ==
    CASE order = 1 -> <<0>>
      [] order = 2 -> <<0, 2, -2>>
      [] order = 3 -> <<0, 2, -2>>
      [] OTHER -> <<>>

\* lines 185-196: the offsets of the cylinders of a bond along perp, in halves
\* of bondSeparation; an order other than 1, 2, 3 gets none
BondOffsets(order) ==
    CASE order = 1 -> <<0>>
      [] order = 2 -> <<1, -1>>
      [] order = 3 -> <<0, 2, -2>>
      [] OTHER -> <<>>

\* lines 201-255: per bond, a cylinder of pointsPerSubBond points at every offset
BondCylinders(molecule, numPoints) ==
    [b \in 1 .. Len(molecule.bonds) |->
        LET order == molecule.bonds[b][3]
        IN  [k \in 1 .. Len(BondOffsets(order)) |->
                [offset |-> BondOffsets(order)[k],
                 points |-> FloorDiv(pointsPerBond(molecule, numPoints), order)]]]

\* generateMolecule raises a TypeError at molecule.bonds.length (line 121) when
\* the structure has no bonds array, and at atom1.pos / atom2.pos (lines
\* 167-168) when a bond index selects no atom
generateMoleculeThrows(type, customData) ==
    LET molecule == IF type = "custom" /\ customData # NullCustom
                    THEN customData.mol ELSE MOLECULES(type)
    IN  /\ molecule.defined
        /\ \/ ~molecule.hasBonds
           \/ \E b \in 1 .. Len(molecule.bonds) :
                  \E k \in 1 .. 2 :
                      molecule.bonds[b][k] \notin 0 .. (Len(molecule.atoms) - 1)

\* Variant of generateMolecule that draws water for an identifier it does not know
generateMoleculeLengthDefault(type, numPoints, customData) ==
    LET found == IF type = "custom" /\ customData # NullCustom
                 THEN customData.mol ELSE MOLECULES(type)
        molecule == IF found.defined THEN found ELSE MOLECULES("H2O")
    IN  SumSeq(AtomPointCounts(molecule, numPoints))
          + SumSeq(BondPointCounts(molecule, numPoints))

\* generateMolecule(type, numPoints, customData): the number of points returned
generateMoleculeLength(type, numPoints, customData) ==
    LET molecule == IF type = "custom" /\ customData # NullCustom
                    THEN customData.mol ELSE MOLECULES(type)
    IN  IF ~molecule.defined THEN 0
        ELSE SumSeq(AtomPointCounts(molecule, numPoints))
               + SumSeq(BondPointCounts(molecule, numPoints))

----------------------------------------------------------------------------
(* artifacts.js, galaxy.js, text3d.js *)

\* generateArtifact(type, numPoints): the generator it dispatches to
generateArtifact(type) ==
    IF type = "pyramid" THEN "pyramid"
    ELSE IF type = "column" THEN "column"
    ELSE IF type = "vase" THEN "vase"
    ELSE "pyramid"

\* generateGalaxy: every catalog star, then numPoints - stars background stars
generateGalaxyLength(numPoints) == StarCount + Max(0, numPoints - StarCount)

\* generateText3D: the even distribution, then the fill loop up to numParticles
generateText3DLength(numParticles) == numParticles

----------------------------------------------------------------------------
(* ParticleField.jsx: the target buffer builder (useEffect, lines 45-117) *)

\* Variant of the math branch without "|| Generators.koch"
MathGeneratorNoFallback(s) == s

\* Generators[shape] || Generators.koch
MathGenerator(s) == IF s \in Generators THEN s ELSE "koch"

\* What the mode dispatch hands to the fill loop: the generated points and
\* colours, the generators it invoked, and whether it called initAudio().
NewData(points, cols, calls, audio) ==
    [points |-> points, colors |-> cols, calls |-> calls, initAudio |-> audio]

ModeDispatch(m, s, t, c, seed, kept) ==
    CASE m = "welcome" ->
            NewData(RandomPoints(generateText3DLength(N), seed),
                    RandomColors(generateText3DLength(N), seed), <<"text3d">>, FALSE)
      [] m = "math" ->
            NewData(RandomPoints(GeneratorLength(MathGenerator(s), N, kept), seed),
                    RandomColors(N, seed), <<MathGenerator(s)>>, FALSE)
      [] m = "molecule" ->
            NewData(RandomPoints(generateMoleculeLength(t, N, c), seed),
                    RandomColors(generateMoleculeLength(t, N, c), seed),
                    <<"molecule">>, FALSE)
      [] m = "galaxy" ->
            NewData(RandomPoints(generateGalaxyLength(N), seed),
                    RandomColors(generateGalaxyLength(N), seed), <<"galaxy">>, FALSE)
      [] m = "artifact" ->
            NewData(RandomPoints(N, seed), RandomColors(N, seed),
                    <<generateArtifact(s)>>, FALSE)
      [] m = "audio" ->
            NewData(RandomPoints(N, seed), RandomColors(N, seed),
                    <<generateArtifact("vase")>>, TRUE)
      [] OTHER -> NewData(<<>>, <<>>, <<>>, FALSE)

\* Variant of the fill loop that repeats the last generated point in the slots
\* past the generated length instead of zeroing them
FillPositionsClamp(newPoints) ==
    [i \in Slots |->
        IF Len(newPoints) = 0 THEN ZeroVec
        ELSE newPoints[Min(i + 1, Len(newPoints))]]

\* The fill loop (lines 92-116): slot i takes generated point i, white when
\* the colour list has no entry i; a slot past the generated length is zeroed.
FillPositions(newPoints) ==
    [i \in Slots |-> IF i < Len(newPoints) THEN newPoints[i + 1] ELSE ZeroVec]

FillColors(newPoints, newColors) ==
    [i \in Slots |->
        IF i < Len(newPoints)
        THEN IF i < Len(newColors) THEN newColors[i + 1] ELSE White
        ELSE ZeroVec]

\* audio.js initAudio(), up to its await: a second call returns at once
InitAudio ==
    IF audioContext
    THEN UNCHANGED audioVars
    ELSE /\ audioContext' = TRUE
         /\ analyser' = TRUE
         /\ micPending' = TRUE
         /\ UNCHANGED <<dataArray, source>>

\* how many of the N samples the escape-time filter can retain
KeptChoices(m, s) ==
    IF m = "math" /\ MathGenerator(s) \in {"mandelbulb", "julia"} THEN 0 .. N ELSE {0}

\* Variant of the effect that also copies the new target into the live buffers
UpdateTargetsJump(m, s, t, c) ==
    \E seed \in Seeds, kept \in KeptChoices(m, s) :
        LET data == ModeDispatch(m, s, t, c, seed, kept)
        IN  /\ targetPositions' = FillPositions(data.points)
            /\ targetColors' = FillColors(data.points, data.colors)
            /\ IF data.initAudio THEN InitAudio ELSE UNCHANGED audioVars
            /\ build' = [ran |-> TRUE, threw |-> FALSE, points |-> data.points,
                         colors |-> data.colors, calls |-> data.calls,
                         props |-> <<m, s, t, c>>]
            /\ positions' = targetPositions'
            /\ colors' = targetColors'

\* The whole effect for the props (m, s, t, c): dispatch, initAudio, fill.
\* The live buffers are not touched.  A TypeError of generateMolecule leaves
\* the effect before the fill loop.
UpdateTargets(m, s, t, c) ==
    IF m = "molecule" /\ generateMoleculeThrows(t, c)
    THEN /\ build' = [ran |-> TRUE, threw |-> TRUE, points |-> <<>>, colors |-> <<>>,
                      calls |-> <<"molecule">>, props |-> <<m, s, t, c>>]
         /\ UNCHANGED <<targetVars, liveVars, audioVars>>
    ELSE \E seed \in Seeds, kept \in KeptChoices(m, s) :
            LET data == ModeDispatch(m, s, t, c, seed, kept)
            IN  /\ targetPositions' = FillPositions(data.points)
                /\ targetColors' = FillColors(data.points, data.colors)
                /\ IF data.initAudio THEN InitAudio ELSE UNCHANGED audioVars
                /\ build' = [ran |-> TRUE, threw |-> FALSE, points |-> data.points,
                             colors |-> data.colors, calls |-> data.calls,
                             props |-> <<m, s, t, c>>]
                /\ UNCHANGED liveVars

\* Variant of the dependency list without mode
EffectDepsNoMode(m, s, t, c) == <<s, t, c>>

\* The dependency list of the effect (line 117); the two buffers never change identity
EffectDeps(m, s, t, c) == <<m, s, t, c>>

\* A React commit of new App state: the effect runs when a dependency changed.
\* An error thrown by the effect unmounts the application: nothing renders after it.
Commit(m, s, t, c) ==
    /\ ~build.threw
    /\ mode' = m
    /\ shape' = s
    /\ moleculeType' = t
    /\ customMolecule' = c
    /\ IF EffectDeps(m, s, t, c) # EffectDeps(mode, shape, moleculeType, customMolecule)
       THEN UpdateTargets(m, s, t, c)
       ELSE /\ build' = [build EXCEPT !.ran = FALSE]
            /\ UNCHANGED <<targetVars, liveVars, audioVars>>

----------------------------------------------------------------------------
(* aiMolecule.js: the answer to a request, validateMoleculeData, fetchMoleculeData *)

\* JSON values: an integer v, the number v + 1/2, NaN (typeof 'number'), a string
Num(v) == [kind |-> "number", v |-> v]
Half(v) == [kind |-> "fraction", v |-> v]
NaNValue == [kind |-> "NaN", v |-> 0]
Str == [kind |-> "string", v |-> 0]

\* an element of data.atoms: obj is FALSE for null, element "" for a missing
\* or non-string element, pos the entries of the pos array
Atom(element, pos) == [obj |-> TRUE, element |-> element, pos |-> pos]
NullAtom == [obj |-> FALSE, element |-> "", pos |-> <<>>]

\* an element of data.bonds: its first two entries (fewer when it is shorter)
\* and its third, the order (0 when absent)
Bond(idx, order) == [array |-> TRUE, idx |-> idx, order |-> order]

\* the parsed JSON: object is FALSE for a non-object, atomsArray for a missing
\* atoms array, bondsArray for a missing bonds field
Data(atoms, bonds) ==
    [object |-> TRUE, atomsArray |-> TRUE, atoms |-> atoms,
     bondsArray |-> TRUE, bonds |-> bonds]
NoData ==
    [object |-> FALSE, atomsArray |-> FALSE, atoms |-> <<>>,
     bondsArray |-> FALSE, bonds |-> <<>>]

\* what came back from the request: kind is "json" for content that parses,
\* "network" (fetch rejects), "http" (response.ok false), "malformed" (the
\* answer has no choices[0]), "suspicious" (validateResponse throws) or
\* "unparsable" (JSON.parse throws)
Reply(kind) == [kind |-> kind, data |-> NoData]
JsonReply(data) == [kind |-> "json", data |-> data]
NoReply == Reply("none")

GenericMessage == "An error occurred while generating the molecule. Please try again."

\* the messages for which error.message.includes("Invalid") ||
\* error.message.includes("Failed") holds (lines 200-202)
KeptMessages ==
    {"Failed to fetch",
     "Failed to generate molecule data. Please try again.",
     "Invalid JSON response from AI model",
     "Invalid data format: not an object",
     "Invalid data format: missing atoms array",
     "Invalid data format: atoms array is empty",
     "Invalid atom: missing or invalid element",
     "Invalid atom: pos must be an array of 3 numbers",
     "Invalid atom: pos values must be valid numbers",
     "Invalid bond: must be an array with at least 2 elements",
     "Invalid bond: indices must be numbers",
     "Invalid bond: indices out of range"}

\* lines 66-81 for one atom ("ok" when it passes; the index is left out of the message)
AtomError(atom) ==
    IF ~atom.obj THEN "Cannot read properties of null"
    ELSE IF atom.element = "" THEN "Invalid atom: missing or invalid element"
    ELSE IF Len(atom.pos) # 3 THEN "Invalid atom: pos must be an array of 3 numbers"
    ELSE IF \E k \in 1 .. 3 : atom.pos[k].kind \notin {"number", "fraction"}
         THEN "Invalid atom: pos values must be valid numbers"
    ELSE "ok"

\* idx < 0 and idx >= n as JavaScript compares them: false for NaN
Negative(value) == value.kind \in {"number", "fraction"} /\ value.v < 0
AtLeast(value, n) == value.kind \in {"number", "fraction"} /\ value.v >= n

\* lines 85-100 for one bond
BondError(bond, n) ==
    IF ~bond.array \/ Len(bond.idx) < 2
    THEN "Invalid bond: must be an array with at least 2 elements"
    ELSE IF \E k \in 1 .. 2 : bond.idx[k].kind = "string"
         THEN "Invalid bond: indices must be numbers"
    ELSE IF \E k \in 1 .. 2 : Negative(bond.idx[k]) \/ AtLeast(bond.idx[k], n)
         THEN "Invalid bond: indices out of range"
    ELSE "ok"

\* the first entry of a list of results that is not "ok"
FirstError(results) ==
    IF \A k \in 1 .. Len(results) : results[k] = "ok" THEN "ok"
    ELSE results[CHOOSE k \in 1 .. Len(results) :
                    /\ results[k] # "ok"
                    /\ \A j \in 1 .. (k - 1) : results[j] = "ok"]

\* Variant of validateMoleculeData without the check of lines 61-63
validateMoleculeDataLax(data) ==
    IF ~data.object THEN "Invalid data format: not an object"
    ELSE IF ~data.atomsArray THEN "Invalid data format: missing atoms array"
    ELSE IF FirstError([k \in 1 .. Len(data.atoms) |-> AtomError(data.atoms[k])]) # "ok"
         THEN FirstError([k \in 1 .. Len(data.atoms) |-> AtomError(data.atoms[k])])
    ELSE IF data.bondsArray
         THEN FirstError([k \in 1 .. Len(data.bonds) |->
                             BondError(data.bonds[k], Len(data.atoms))])
    ELSE "ok"

\* validateMoleculeData(data): "ok" when it returns, else the message it throws
validateMoleculeData(data) ==
    IF ~data.object THEN "Invalid data format: not an object"
    ELSE IF ~data.atomsArray THEN "Invalid data format: missing atoms array"
    ELSE IF Len(data.atoms) = 0 THEN "Invalid data format: atoms array is empty"
    ELSE IF FirstError([k \in 1 .. Len(data.atoms) |-> AtomError(data.atoms[k])]) # "ok"
         THEN FirstError([k \in 1 .. Len(data.atoms) |-> AtomError(data.atoms[k])])
    ELSE IF data.bondsArray
         THEN FirstError([k \in 1 .. Len(data.bonds) |->
                             BondError(data.bonds[k], Len(data.atoms))])
    ELSE "ok"

\* fetchMoleculeData after its request (lines 169-204): the structure, or the
\* message of the error it throws after the catch of lines 197-204
fetchMoleculeData(response) ==
    LET thrown ==
            CASE response.kind = "network" -> "Failed to fetch"
              [] response.kind = "http" ->
                    "Failed to generate molecule data. Please try again."
              [] response.kind = "suspicious" -> "Response contains suspicious content"
              [] response.kind = "unparsable" -> "Invalid JSON response from AI model"
              [] response.kind = "json" -> validateMoleculeData(response.data)
              \* "malformed": an error body that is no JSON, no choices[0] in the answer
              [] OTHER -> "Unexpected token"
    IN  [ok |-> thrown = "ok",
         message |-> IF thrown \in KeptMessages THEN thrown ELSE GenericMessage]

\* the index generateMolecule uses for molecule.atoms[value]: a number that
\* is no integer selects no atom, like -1
AtomIndex(value) == IF value.kind = "number" THEN value.v ELSE -1

\* the structure as generateMolecule reads it: elements, and per bond the two
\* indices and bond[2] || 1
AsMolecule(data) ==
    [defined |-> TRUE, hasBonds |-> data.bondsArray,
     atoms |-> [k \in 1 .. Len(data.atoms) |-> data.atoms[k].element],
     bonds |-> [k \in 1 .. Len(data.bonds) |->
                   <<AtomIndex(data.bonds[k].idx[1]), AtomIndex(data.bonds[k].idx[2]),
                     IF data.bonds[k].order = 0 THEN 1 ELSE data.bonds[k].order>>]]

\* sodium chloride as the model answers
Origin == <<Num(0), Num(0), Num(0)>>
Away == <<Num(2), Half(0), Num(-1)>>
SaltAtoms == <<Atom("Na", Origin), Atom("Cl", Away)>>
SaltData == Data(SaltAtoms, <<Bond(<<Num(0), Num(1)>>, 1)>>)

----------------------------------------------------------------------------
(* App.jsx: the control panel *)

\* the mode buttons that call setMode alone (lines 103-138, Artifacts apart)
ModeButtons == {"welcome", "math", "molecule", "solarSystem", "audio"}
\* the curve buttons of the math panel (lines 57-70)
mathShapes == Generators
\* the buttons of the artifact panel (lines 163-165)
ArtifactButtons == {"pyramid", "column", "vase"}
\* the molecule buttons (lines 72-82): Benzene has no entry in MOLECULES
molecules == MoleculeIds \cup {"Benzene"}

\* structures fetchMoleculeData can resolve with
CustomPool == {Molecule(<<"Na", "Cl">>, <<<<0, 1, 1>>>>)}
\* the answers the exploration of the panel receives: table salt, an HTTP failure
ExploredReplies == {JsonReply(SaltData), Reply("http")}
NextObj(c) == IF c.obj = 1 THEN 2 ELSE 1

\* the text the exploration of the panel types into the input
WaterQuery == <<"W", "a", "t", "e", "r">>
ExploredQueries == {WaterQuery}
\* onClick={() => setMode(m)}; setting the current value again renders nothing
SetMode(m) ==
    /\ m # mode
    /\ Commit(m, shape, moleculeType, customMolecule)
    /\ UNCHANGED <<aiVars, frame, ticks, call, handVars, group>>

\* onClick={() => { setMode('artifact'); setShape('pyramid'); }}: one batched render
ArtifactsButton ==
    /\ mode # "artifact" \/ shape # "pyramid"
    /\ Commit("artifact", "pyramid", moleculeType, customMolecule)
    /\ UNCHANGED <<aiVars, frame, ticks, call, handVars, group>>

\* onClick={() => setShape(s)}: the math panel and the artifact panel
SetShape(s) ==
    /\ \/ mode = "math" /\ s \in mathShapes
       \/ mode = "artifact" /\ s \in ArtifactButtons
    /\ s # shape
    /\ Commit(mode, s, moleculeType, customMolecule)
    /\ UNCHANGED <<aiVars, frame, ticks, call, handVars, group>>

\* onClick={() => setMoleculeType(m.id)}: the molecule panel
SetMoleculeType(t) ==
    /\ mode = "molecule"
    /\ t \in molecules
    /\ t # moleculeType
    /\ Commit(mode, shape, t, customMolecule)
    /\ UNCHANGED <<aiVars, frame, ticks, call, handVars, group>>

\* a query is the sequence of its characters (UTF-16 units, what .length counts)
LowerCase == <<"a", "b", "c", "d", "e", "f", "g", "h", "i", "j", "k", "l", "m", "n", "o", "p", "q", "r", "s", "t", "u", "v", "w", "x", "y", "z">>
UpperCase == <<"A", "B", "C", "D", "E", "F", "G", "H", "I", "J", "K", "L", "M", "N", "O", "P", "Q", "R", "S", "T", "U", "V", "W", "X", "Y", "Z">>
Digits == {"0", "1", "2", "3", "4", "5", "6", "7", "8", "9"}
\* \s, as far as a one-line text input can hold it
Whitespace == {" ", "\t"}
\* the class [a-zA-Z0-9\s\-'.()] of App.jsx line 38 and aiMolecule.js line 24
NameChars ==
    {LowerCase[i] : i \in 1 .. 26} \cup {UpperCase[i] : i \in 1 .. 26}
        \cup Digits \cup Whitespace \cup {"-", "'", ".", "(", ")"}
\* the class of shell metacharacters of aiMolecule.js line 10; the patterns
\* of lines 12-14 ("$(", "${", a backslash) match only where this one does.
\* The backquote is written by name.
Backquote == "backquote"
ShellChars == {";", "&", "|", Backquote, "$", "(", ")", "{", "}", "[", "]", "<", ">", "\\"}
\* /exec|eval|require|import/i
Keywords == {<<"e", "x", "e", "c">>,
             <<"e", "v", "a", "l">>,
             <<"r", "e", "q", "u", "i", "r", "e">>,
             <<"i", "m", "p", "o", "r", "t">>}
ToLower(c) ==
    IF \E i \in 1 .. 26 : UpperCase[i] = c
    THEN LowerCase[CHOOSE i \in 1 .. 26 : UpperCase[i] = c]
    ELSE c
Contains(query, word) ==
    \E i \in 1 .. (Len(query) - Len(word) + 1) :
        \A j \in 1 .. Len(word) : ToLower(query[i + j - 1]) = word[j]
\* /^[a-zA-Z0-9\s\-'.()]+$/.test(query)
NameOnly(query) == Len(query) > 0 /\ \A i \in 1 .. Len(query) : query[i] \in NameChars

MaxQuery == 100

\* the checks of handleGenerateMolecule (App.jsx lines 21-41) in the order of
\* the code: the message it sets, Null when the query goes on to the request
QueryErrorAnyLength(query, key) ==
    IF query = <<>> THEN "Please enter a molecule name."
    ELSE IF ~key THEN "API Key not found in environment variables."
    ELSE IF ~NameOnly(query)
    THEN "Molecule name contains invalid characters. Please use only letters, numbers, spaces, and basic punctuation."
    ELSE Null
QueryError(query, key) ==
    IF query = <<>> THEN "Please enter a molecule name."
    ELSE IF ~key THEN "API Key not found in environment variables."
    ELSE IF Len(query) > MaxQuery THEN "Molecule name is too long (max 100 characters)."
    ELSE IF ~NameOnly(query)
    THEN "Molecule name contains invalid characters. Please use only letters, numbers, spaces, and basic punctuation."
    ELSE Null

\* aiMolecule.js lines 2-29: the message of the error it throws, "ok" when it
\* returns the trimmed query
validateMoleculeQuery(query) ==
    IF Len(query) > MaxQuery THEN "Molecule name is too long (max 100 characters)"
    ELSE IF \/ \E i \in 1 .. Len(query) : query[i] \in ShellChars
            \/ \E word \in Keywords : Contains(query, word)
    THEN "Invalid characters detected in molecule name"
    ELSE IF ~NameOnly(query) THEN "Molecule name contains invalid characters"
    ELSE "ok"

\* fetchMoleculeData lines 107-112, ahead of its try block and of fetch: the
\* message the call rejects with before any request goes out, "ok" otherwise
Refusal(query, key) ==
    IF query = <<>> \/ ~key THEN "Molecule name and API Key are required."
    ELSE validateMoleculeQuery(query)

\* <button onClick={handleGenerateMolecule} disabled={isLoading}>
DisabledNever == FALSE
Disabled == isLoading

\* onChange={(e) => setMoleculeQuery(e.target.value)}: the input of the
\* molecule panel holds the text q
SetMoleculeQuery(q) ==
    /\ mode = "molecule"
    /\ q # moleculeQuery
    /\ moleculeQuery' = q
    /\ Commit(mode, shape, moleculeType, customMolecule)
    /\ UNCHANGED <<isLoading, error, reply, apiKey, pending,
                   frame, ticks, call, handVars, group>>

\* handleGenerateMolecule, lines 21-41: one of the checks fails, setError and return
GenerateRejected ==
    /\ mode = "molecule"
    /\ ~Disabled
    /\ QueryError(moleculeQuery, apiKey) # Null
    /\ error' = QueryError(moleculeQuery, apiKey)
    /\ Commit(mode, shape, moleculeType, customMolecule)
    /\ UNCHANGED <<isLoading, reply, moleculeQuery, apiKey, pending,
                   frame, ticks, call, handVars, group>>

\* handleGenerateMolecule up to its await (lines 43-47), for a query that passes
\* the checks of lines 21-41; the button is disabled while isLoading
GenerateStart ==
    /\ mode = "molecule"
    /\ ~Disabled
    /\ QueryError(moleculeQuery, apiKey) = Null
    /\ isLoading' = TRUE
    /\ error' = Null
    /\ reply' = NoReply
    /\ pending' = Append(pending, moleculeQuery)
    /\ UNCHANGED <<moleculeQuery, apiKey>>
    /\ Commit(mode, shape, moleculeType, customMolecule)
    /\ UNCHANGED <<frame, ticks, call, handVars, group>>

\* lines 47-49 and 52-54: fetchMoleculeData returned the validated structure
FetchResolved(response) ==
    /\ pending # <<>>
    /\ Refusal(Head(pending), apiKey) = "ok"
    /\ fetchMoleculeData(response).ok
    /\ pending' = Tail(pending)
    /\ UNCHANGED <<moleculeQuery, apiKey>>
    /\ isLoading' = FALSE
    /\ error' = error
    /\ reply' = response
    /\ Commit(mode, shape, "custom",
              CustomData(NextObj(customMolecule), AsMolecule(response.data)))
    /\ UNCHANGED <<frame, ticks, call, handVars, group>>

\* lines 50-54: fetchMoleculeData rejected before its request went out
\* (aiMolecule.js lines 107-112); setError(err.message), setIsLoading(false)
FetchRefused ==
    /\ pending # <<>>
    /\ Refusal(Head(pending), apiKey) # "ok"
    /\ isLoading' = FALSE
    /\ error' = Refusal(Head(pending), apiKey)
    /\ pending' = Tail(pending)
    /\ Commit(mode, shape, moleculeType, customMolecule)
    /\ UNCHANGED <<reply, moleculeQuery, apiKey, frame, ticks, call, handVars, group>>

\* lines 50-54: fetchMoleculeData threw; setError(err.message)
FetchRejected(response) ==
    /\ pending # <<>>
    /\ Refusal(Head(pending), apiKey) = "ok"
    /\ ~fetchMoleculeData(response).ok
    /\ pending' = Tail(pending)
    /\ UNCHANGED <<moleculeQuery, apiKey>>
    /\ isLoading' = FALSE
    /\ error' = fetchMoleculeData(response).message
    /\ reply' = response
    /\ Commit(mode, shape, moleculeType, customMolecule)
    /\ UNCHANGED <<frame, ticks, call, handVars, group>>

----------------------------------------------------------------------------
(* audio.js: initAudio after its await *)

\* getUserMedia resolved (lines 15-21)
MicGranted ==
    /\ micPending
    /\ micPending' = FALSE
    /\ source' = TRUE
    /\ dataArray' = TRUE
    /\ build' = [build EXCEPT !.ran = FALSE]
    /\ UNCHANGED <<appVars, aiVars, targetVars, liveVars, audioContext, analyser,
                   frame, ticks, call, handVars, group>>

\* getUserMedia rejected (lines 22-25): the analyser stays, dataArray stays null
MicRejected ==
    /\ micPending
    /\ micPending' = FALSE
    /\ build' = [build EXCEPT !.ran = FALSE]
    /\ UNCHANGED <<appVars, aiVars, targetVars, liveVars, audioContext, analyser,
                   dataArray, source, frame, ticks, call, handVars, group>>

----------------------------------------------------------------------------
(* ParticleField.jsx: the animator (useFrame, lines 119-173) *)

\* frame deltas in seconds <<numerator, denominator>>: 1/12, 1/6 and, after a pause, 1/2
Deltas == {<<1, 12>>, <<1, 6>>, <<1, 2>>}
\* const speed = 3.0 * delta
Speed(delta) == <<3 * delta[1], delta[2]>>

\* the snapshots of the analyser explored: silence, and every other bin at full
\* amplitude (byte 255) starting at bin 0 or at bin 1
Snapshots ==
    {[b \in 1 .. BinCount |-> 0]}
      \cup {[b \in 1 .. BinCount |-> IF b % 2 = k THEN 255 ELSE 0] : k \in {0, 1}}
NoAudio == <<>>

\* getAudioData(): null without an analyser; with an analyser and no dataArray,
\* analyser.getByteFrequencyData(null) raises a TypeError
GetAudioData ==
    IF ~analyser THEN "null"
    ELSE IF ~dataArray THEN "throws"
    ELSE "data"

\* const factor = 1 + val * 2.0, val = audioData[i % length] / 255
AudioFactor(audioData, i) == <<255 + 2 * audioData[(i % Len(audioData)) + 1], 255>>

\* Variant of the step that stores the scaled target itself
ApproachScaledDirect(v, target, factor, speed) ==
    RoundHalfEven(target * factor[1], factor[2])

\* v += (target * factor - v) * speed, stored in a Float32Array
ApproachScaled(v, target, factor, speed) ==
    RoundHalfEven(v * factor[2] * speed[2]
                    + (target * factor[1] - v * factor[2]) * speed[1],
                  factor[2] * speed[2])

\* Variant of the step that leaves delta out of the step factor (speed = 3.0)
ApproachNoDelta(v, target, speed) == ApproachScaled(v, target, <<1, 1>>, <<3, 1>>)

\* v += (target - v) * speed, stored in a Float32Array
Approach(v, target, speed) == ApproachScaled(v, target, <<1, 1>>, speed)

\* colors = (val, 0.5, 1 - val), stored in a Float32Array
AudioColor(audioData, i) ==
    LET byte == audioData[(i % Len(audioData)) + 1]
    IN  Vec(RoundHalfEven(Unit * byte, 255), RoundHalfEven(Unit, 2),
            RoundHalfEven(Unit * (255 - byte), 255))

\* The per-particle loop (lines 134-169) for mode m; audioData is NoAudio or a snapshot
AnimatePositions(pos, tgt, m, audioData, speed) ==
    [i \in Slots |->
        [a \in Axes |->
            IF m = "audio" /\ audioData # NoAudio
            THEN ApproachScaled(pos[i][a], tgt[i][a], AudioFactor(audioData, i), speed)
            ELSE Approach(pos[i][a], tgt[i][a], speed)]]

\* Variant of the colour update without the audio branch
AnimateColorsMorph(col, tgt, m, audioData, speed) ==
    [i \in Slots |-> [a \in Axes |-> Approach(col[i][a], tgt[i][a], speed)]]

AnimateColors(col, tgt, m, audioData, speed) ==
    [i \in Slots |->
        IF m = "audio" /\ audioData # NoAudio
        THEN AudioColor(audioData, i)
        ELSE [a \in Axes |-> Approach(col[i][a], tgt[i][a], speed)]]

(* store.js, HandController.jsx and the gesture step of useFrame (lines 175-186) *)

\* transform values are JavaScript numbers; the model keeps GestureDigits decimals
GUnit == 10 ^ GestureDigits

\* useGestureStore's initial state (store.js:4-6)
DefaultGesture == [rotation |-> <<0, 0>>, scale |-> GUnit, position |-> <<0, 0, 0>>]
\* a new THREE.Group: no rotation, scale 1, at the origin
DefaultGroup == [rotation |-> <<0, 0>>, scale |-> GUnit, position |-> <<0, 0, 0>>]

HandInit ==
    /\ useHandControl = FALSE
    /\ handLoop = FALSE
    /\ gesture = DefaultGesture
    /\ group = DefaultGroup

\* what the landmarker reports for a frame: no hand, or the wrist (x, y) and
\* the thumb-index distance in hundredths of the image, and the two angles
\* atan2 yields, in GUnit
NoHand == [seen |-> FALSE, wrist |-> <<0, 0>>, pinch |-> 0, pitch |-> 0, yaw |-> 0]
Hands ==
    {[seen |-> TRUE, wrist |-> <<25, 100>>, pinch |-> 20, pitch |-> GUnit \div 2, yaw |-> 0],
     [seen |-> TRUE, wrist |-> <<100, 0>>, pinch |-> 1, pitch |-> 0, yaw |-> -(GUnit \div 4)]}

\* predictWebcam lines 47-88: position from the wrist, scale from the pinch
\* clamped to [0.5, 5], rotation twice the angles
HandGesture(hand) ==
    [rotation |-> <<2 * hand.pitch, 2 * hand.yaw>>,
     scale |-> Max(GUnit \div 2, Min(5 * GUnit, (hand.pinch * 15 * GUnit) \div 100)),
     position |-> <<((50 - hand.wrist[1]) * 20 * GUnit) \div 100,
                    ((50 - hand.wrist[2]) * 15 * GUnit) \div 100, 0>>]

\* Variant of lerp that jumps to the signal
LerpSnap(x, y) == y

\* THREE.MathUtils.lerp(x, y, 0.1) and Vector3.lerp(v, 0.1)
Lerp(x, y) == RoundHalfEven(9 * x + y, 10)

\* lines 175-186: rotation.x, rotation.y, the uniform scale and the position
\* of the group each move toward the value in the store
GestureStep(g, store) ==
    [rotation |-> <<Lerp(g.rotation[1], store.rotation[1]),
                    Lerp(g.rotation[2], store.rotation[2])>>,
     scale |-> Lerp(g.scale, store.scale),
     position |-> <<Lerp(g.position[1], store.position[1]),
                    Lerp(g.position[2], store.position[2]),
                    Lerp(g.position[3], store.position[3])>>]

\* onClick={() => setUseHandControl(!useHandControl)}: Scene mounts or unmounts
\* HandController; unmounted, videoRef.current is null and predictWebcam stops.
\* ParticleField renders with the same props, so the effect does not run.
ToggleHandControl ==
    /\ useHandControl' = ~useHandControl
    /\ handLoop' = (IF useHandControl THEN FALSE ELSE handLoop)
    /\ build' = [build EXCEPT !.ran = FALSE]
    /\ UNCHANGED <<appVars, aiVars, targetVars, liveVars, audioVars, frame, ticks, call,
                   gesture, group>>

\* HandController lines 9-37: model and camera loaded, 'loadeddata' starts the loop
HandReady ==
    /\ useHandControl
    /\ ~handLoop
    /\ handLoop' = TRUE
    /\ build' = [build EXCEPT !.ran = FALSE]
    /\ UNCHANGED <<appVars, aiVars, targetVars, liveVars, audioVars, frame, ticks, call,
                   useHandControl, gesture, group>>

\* predictWebcam (lines 39-93): one pass of the loop; the store is written
\* only when a hand was found
PredictWebcam(hand) ==
    /\ handLoop
    /\ gesture' = (IF hand.seen THEN HandGesture(hand) ELSE gesture)
    /\ build' = [build EXCEPT !.ran = FALSE]
    /\ UNCHANGED <<appVars, aiVars, targetVars, liveVars, audioVars, frame, ticks, call,
                   useHandControl, handLoop, group>>

----------------------------------------------------------------------------
\* One frame: the error of getAudioData leaves the callback before the loop
\* and before the gesture step
Tick(delta, snapshot) ==
    /\ ~build.threw
    /\ ticks' = ticks + 1
    /\ build' = [build EXCEPT !.ran = FALSE]
    /\ IF mode = "audio" /\ GetAudioData = "throws"
       THEN /\ frame' = [threw |-> TRUE, mode |-> mode, delta |-> delta, audio |-> NoAudio]
            /\ UNCHANGED <<liveVars, group>>
       ELSE LET audioData == IF mode = "audio" /\ GetAudioData = "data"
                             THEN snapshot ELSE NoAudio
            IN  /\ positions' = AnimatePositions(positions, targetPositions, mode,
                                                 audioData, Speed(delta))
                /\ colors' = AnimateColors(colors, targetColors, mode,
                                           audioData, Speed(delta))
                /\ frame' = [threw |-> FALSE, mode |-> mode, delta |-> delta,
                            audio |-> audioData]
                /\ group' = GestureStep(group, gesture)
    /\ UNCHANGED <<appVars, aiVars, targetVars, audioVars, handVars, call>>

----------------------------------------------------------------------------
(* The application: mounted with the initial props, the effect run once *)

\* pos[i] = (Math.random() - 0.5) * 20 per axis
InitPoint(j) == IF j % 2 = 0 THEN ZeroVec ELSE Vec(-10 * Unit, 5 * Unit, 5 * Unit)

NoFrame == [threw |-> FALSE, mode |-> Null, delta |-> <<0, 1>>, audio |-> NoAudio]

\* no utility function under examination
NoCall == [fn |-> Null]

Mounted ==
    /\ mode = "welcome"
    /\ shape = "koch"
    /\ moleculeType = "H2O"
    /\ customMolecule = NullCustom
    /\ isLoading = FALSE
    /\ error = Null
    /\ reply = NoReply
    /\ moleculeQuery = <<>>
    /\ apiKey \in BOOLEAN
    /\ pending = <<>>
    /\ \E seed \in Seeds :
          positions = [i \in Slots |-> InitPoint(i + seed)]
    /\ colors = [i \in Slots |-> White]
    /\ audioContext = FALSE
    /\ analyser = FALSE
    /\ dataArray = FALSE
    /\ source = FALSE
    /\ micPending = FALSE
    /\ \E seed \in Seeds :
          LET data == ModeDispatch("welcome", "koch", "H2O", NullCustom, seed, 0)
          IN  /\ targetPositions = FillPositions(data.points)
              /\ targetColors = FillColors(data.points, data.colors)
              /\ build = [ran |-> TRUE, threw |-> FALSE, points |-> data.points, colors |-> data.colors,
                          calls |-> data.calls,
                          props |-> <<"welcome", "koch", "H2O", NullCustom>>]
    /\ frame = NoFrame
    /\ HandInit
    /\ ticks = 0

\* the build has VITE_OPENROUTER_API_KEY set
Init == Mounted /\ apiKey /\ call = NoCall

\* the buttons the exploration presses (the others build like one of these)
ExploredCurves == {"koch", "mandelbulb"}
ExploredArtifacts == {"pyramid", "vase"}
ExploredMolecules == {"H2O", "Benzene"}
FrameModes == {"welcome", "molecule", "audio"}

\* the frame deltas explored between selection changes: a regular frame and
\* the long frame after a pause
FrameDeltas == {<<1, 6>>, <<1, 2>>}

\* a frame with whatever the analyser holds at that moment
SomeTick(deltas) ==
    \E delta \in deltas :
        \E snapshot \in (IF mode = "audio" /\ GetAudioData = "data"
                         THEN Snapshots ELSE {NoAudio}) :
            Tick(delta, snapshot)

(* Spec: the control panel, the builder effect and the audio module *)
Next ==
    \/ \E m \in ModeButtons : SetMode(m)
    \/ ArtifactsButton
    \/ \E s \in ExploredCurves \cup ExploredArtifacts : SetShape(s)
    \/ \E t \in ExploredMolecules : SetMoleculeType(t)
    \/ \E q \in ExploredQueries : SetMoleculeQuery(q)
    \/ GenerateStart
    \/ \E response \in ExploredReplies : FetchResolved(response)
    \/ \E response \in ExploredReplies : FetchRejected(response)
    \/ MicGranted
    \/ MicRejected

Spec == Init /\ [][Next]_vars

(* SpecFrames: mode changes, the microphone and frame ticks interleaved *)
NextFrames ==
    \/ \E m \in FrameModes : SetMode(m)
    \/ MicGranted
    \/ MicRejected
    \/ ticks < MaxFrames /\ SomeTick(FrameDeltas)

SpecFrames == Init /\ [][NextFrames]_vars

(* SpecGesture: hand control, the gesture store and frame ticks *)
GestureDeltas == {<<1, 6>>}

NextGesture ==
    \/ ToggleHandControl
    \/ HandReady
    \/ \E hand \in Hands \cup {NoHand} : PredictWebcam(hand)
    \/ ticks < MaxGestureTicks /\ SomeTick(GestureDeltas)

SpecGesture == Init /\ [][NextGesture]_vars

(* SpecAI: the molecule panel and the answers to AI requests *)

\* structures the AI model can answer with: well-formed ones, and one for
\* every check of validateMoleculeData
AcceptableData ==
    {SaltData,
     \* no order in the bond
     Data(SaltAtoms, <<Bond(<<Num(0), Num(1)>>, 0)>>),
     \* no bonds field
     [Data(SaltAtoms, <<>>) EXCEPT !.bondsArray = FALSE],
     \* a bond index that is no integer
     Data(SaltAtoms, <<Bond(<<Half(0), Num(1)>>, 1)>>)}
DefectiveData ==
    {NoData,
     [Data(<<>>, <<>>) EXCEPT !.atomsArray = FALSE],
     Data(<<>>, <<>>),
     Data(<<NullAtom>>, <<>>),
     Data(<<Atom("", Origin)>>, <<>>),
     Data(<<Atom("Na", <<Num(0), Num(0)>>)>>, <<>>),
     Data(<<Atom("Na", Origin), Atom("Cl", <<Num(1), Str, Num(0)>>)>>, <<>>),
     Data(SaltAtoms, <<[Bond(<<>>, 0) EXCEPT !.array = FALSE]>>),
     Data(SaltAtoms, <<Bond(<<Num(0)>>, 0)>>),
     Data(SaltAtoms, <<Bond(<<Num(0), Str>>, 1)>>),
     Data(SaltAtoms, <<Bond(<<Num(0), Num(1)>>, 1), Bond(<<Num(0), Num(2)>>, 1)>>),
     Data(SaltAtoms, <<Bond(<<Num(-1), Num(1)>>, 1)>>)}
Failures == {Reply(kind) : kind \in {"network", "http", "malformed", "suspicious",
                                     "unparsable"}}
Replies == {JsonReply(data) : data \in AcceptableData \cup DefectiveData} \cup Failures

NextAI ==
    \/ \E m \in {"welcome", "molecule"} : SetMode(m)
    \/ \E t \in {"H2O"} : SetMoleculeType(t)
    \/ \E q \in ExploredQueries : SetMoleculeQuery(q)
    \/ GenerateStart
    \/ \E response \in Replies : FetchResolved(response)
    \/ \E response \in Replies : FetchRejected(response)

SpecAI == Init /\ [][NextAI]_vars

(* SpecQuery: the AI Generator of the molecule panel, with and without a    *)
(* key in the environment, and the texts a user can type                    *)
Repeat(c, n) == [i \in 1 .. n |-> c]
Queries ==
    {<<>>,
     WaterQuery,
     <<"H", "2", "O", ";">>,            \* a shell metacharacter
     <<"N", "a", "+">>,                 \* a character outside every class
     <<"(", "R", ")">>,                 \* App.jsx lets it pass, validateMoleculeQuery does not
     <<"E", "v", "a", "l">>,            \* a keyword, in another case
     Repeat("a", MaxQuery),
     Repeat("a", MaxQuery + 1)}

InitQuery == Mounted /\ call = NoCall

NextQuery ==
    \/ \E m \in {"welcome", "molecule"} : SetMode(m)
    \/ \E q \in Queries : SetMoleculeQuery(q)
    \/ GenerateRejected
    \/ GenerateStart
    \/ FetchRefused
    \/ \E response \in ExploredReplies : FetchResolved(response)
    \/ \E response \in ExploredReplies : FetchRejected(response)

SpecQuery == InitQuery /\ [][NextQuery]_vars

(* SpecBuild: ParticleField on its own, rendered with any props, known to   *)
(* the panel or not (galaxy has a branch and no button; "text", "sphere"    *)
(* and "Caffeine" are identifiers nothing recognizes)                       *)
AnyMode == ModeButtons \cup {"artifact", "galaxy", "text"}
AnyShape == {"koch", "mandelbulb", "orbitals", "pyramid", "vase", "sphere"}
AnyMolecule == {"H2O", "Benzene", "Caffeine", "custom"}
AnyCustom == {NullCustom} \cup {CustomData(1, molecule) : molecule \in CustomPool}

InitBuild ==
    /\ mode \in AnyMode
    /\ shape \in AnyShape
    /\ moleculeType \in AnyMolecule
    /\ customMolecule \in AnyCustom
    /\ isLoading = FALSE
    /\ error = Null
    /\ reply = NoReply
    /\ moleculeQuery = <<>>
    /\ apiKey = TRUE
    /\ pending = <<>>
    /\ \E seed \in Seeds :
          positions = [i \in Slots |-> InitPoint(i + seed)]
    /\ colors = [i \in Slots |-> White]
    /\ audioContext = (mode = "audio")
    /\ analyser = (mode = "audio")
    /\ micPending = (mode = "audio")
    /\ dataArray = FALSE
    /\ source = FALSE
    /\ \E seed \in Seeds, kept \in KeptChoices(mode, shape) :
          LET data == ModeDispatch(mode, shape, moleculeType, customMolecule, seed, kept)
          IN  /\ targetPositions = FillPositions(data.points)
              /\ targetColors = FillColors(data.points, data.colors)
              /\ build = [ran |-> TRUE, threw |-> FALSE, points |-> data.points, colors |-> data.colors,
                          calls |-> data.calls,
                          props |-> <<mode, shape, moleculeType, customMolecule>>]
    /\ frame = NoFrame
    /\ HandInit
    /\ call = NoCall
    /\ ticks = 0

\* the parent renders ParticleField with new props
Render(m, s, t, c) ==
    /\ <<m, s, t, c>> # <<mode, shape, moleculeType, customMolecule>>
    /\ Commit(m, s, t, c)
    /\ UNCHANGED <<aiVars, frame, ticks, call, handVars, group>>

NextBuild ==
    \/ \E m \in AnyMode : Render(m, shape, moleculeType, customMolecule)
    \/ \E s \in AnyShape : Render(mode, s, moleculeType, customMolecule)
    \/ \E t \in AnyMolecule : Render(mode, shape, t, customMolecule)
    \/ \E c \in AnyCustom : Render(mode, shape, moleculeType, c)

SpecBuild == InitBuild /\ [][NextBuild]_vars

(* SpecAnim: the animator alone, from any state a session can be in before  *)
(* its first frame                                                          *)
InitAnim ==
    /\ mode \in ModeButtons \cup {"artifact"}
    /\ shape \in (IF mode = "artifact" THEN {"pyramid"} ELSE {"koch", "mandelbulb"})
    /\ moleculeType = "H2O"
    /\ customMolecule = NullCustom
    /\ isLoading = FALSE
    /\ error = Null
    /\ reply = NoReply
    /\ moleculeQuery = <<>>
    /\ apiKey = TRUE
    /\ pending = <<>>
    /\ \E seed \in Seeds :
          positions = [i \in Slots |-> InitPoint(i + seed)]
    /\ colors = [i \in Slots |-> White]
    \* initAudio never called, waiting for the microphone, granted, rejected
    /\ \E a \in (IF mode = "audio" THEN {} ELSE {<<FALSE, FALSE, FALSE, FALSE, FALSE>>})
                  \cup {<<TRUE, TRUE, FALSE, FALSE, TRUE>>,
                        <<TRUE, TRUE, TRUE, TRUE, FALSE>>,
                        <<TRUE, TRUE, FALSE, FALSE, FALSE>>} :
          /\ audioContext = a[1]
          /\ analyser = a[2]
          /\ dataArray = a[3]
          /\ source = a[4]
          /\ micPending = a[5]
    /\ \E seed \in Seeds, kept \in KeptChoices(mode, shape) :
          LET data == ModeDispatch(mode, shape, moleculeType, customMolecule, seed, kept)
          IN  /\ targetPositions = FillPositions(data.points)
              /\ targetColors = FillColors(data.points, data.colors)
              /\ build = [ran |-> TRUE, threw |-> FALSE, points |-> data.points, colors |-> data.colors,
                          calls |-> data.calls,
                          props |-> <<mode, shape, moleculeType, customMolecule>>]
    /\ frame = NoFrame
    /\ HandInit
    /\ call = NoCall
    /\ ticks = 0

NextAnim == ticks < MaxTicks /\ SomeTick(Deltas)

SpecAnim == InitAnim /\ [][NextAnim]_vars

----------------------------------------------------------------------------
(* The utility functions of the generators, each called on its own *)

\* the longest source and the largest target count resample is called with
MaxSource == 22
MaxTarget == 22

\* a source of len points, each named by its index in the source
SourcePoints(len) == [k \in 1 .. len |-> k - 1]

\* (i / targetCount) * points.length is evaluated in double precision, the
\* quotient being rounded before the product: for these
\* <<i, targetCount, length>> the product falls just below the integer
\* i * length / targetCount (15 / 22 is stored as 0.68181818181818177, and
\* times 22 gives 14.999999999999998).  The list covers lengths and counts
\* up to 24: no other triple in that range differs from the exact quotient.
DoubleSlips == {<<15, 22, 22>>, <<13, 23, 23>>}

\* Variant of the index that rounds to the nearest source entry
resampleIndexNearest(i, targetCount, length) ==
    Min(length - 1, FloorDiv(2 * i * length + targetCount, 2 * targetCount))

\* Math.floor((i / targetCount) * points.length)
resampleIndex(i, targetCount, length) ==
    FloorDiv(i * length, targetCount)
        - (IF <<i, targetCount, length>> \in DoubleSlips THEN 1 ELSE 0)

\* resample(points, targetCount)
resample(points, targetCount) ==
    IF Len(points) = 0 THEN <<>>
    ELSE [i \in 1 .. targetCount |->
             points[resampleIndex(i - 1, targetCount, Len(points)) + 1]]

InitResample ==
    /\ Mounted
    /\ \E len \in 0 .. MaxSource, targetCount \in 0 .. MaxTarget :
          call = [fn |-> "resample", points |-> SourcePoints(len),
                  targetCount |-> targetCount, returned |-> FALSE, result |-> <<>>]

Resample ==
    /\ call.fn = "resample"
    /\ ~call.returned
    /\ call' = [call EXCEPT !.returned = TRUE,
                            !.result = resample(call.points, call.targetCount)]
    /\ UNCHANGED <<appVars, aiVars, targetVars, liveVars, audioVars, build,
                   frame, ticks, handVars, group>>

NextResample == Resample

SpecResample == InitResample /\ [][NextResample]_vars

\* normalizePoints computes in JavaScript numbers; the model keeps NumberBits
\* binary digits after the point and rounds every quotient and product to
\* the nearest such value, ties to even
NumberBits == 4
NUnit == 2 ^ NumberBits

\* the coordinate a product 0 * Infinity leaves
NaN == "NaN"

SetMin(S) == CHOOSE m \in S : \A x \in S : m <= x
SetMax(S) == CHOOSE m \in S : \A x \in S : x <= m

\* new THREE.Box3().setFromPoints(points): the least and the greatest
\* coordinate on axis a
BoxMin(points, a) == SetMin({points[k][a] : k \in 1 .. Len(points)})
BoxMax(points, a) == SetMax({points[k][a] : k \in 1 .. Len(points)})

\* box.getCenter: (min + max) * 0.5, the origin for an empty box
getCenter(points) ==
    IF Len(points) = 0 THEN ZeroVec
    ELSE [a \in Axes |-> RoundHalfEven(BoxMin(points, a) + BoxMax(points, a), 2)]

\* box.getSize: max - min, zero for an empty box
getSize(points) ==
    IF Len(points) = 0 THEN ZeroVec
    ELSE [a \in Axes |-> BoxMax(points, a) - BoxMin(points, a)]

\* Math.max(size.x, size.y, size.z)
maxDim(points) ==
    LET size == getSize(points) IN Max(size[1], Max(size[2], size[3]))

\* scale / maxDim, for maxDim > 0
ScaleFactor(scale, dim) == RoundHalfEven(scale * NUnit * NUnit, dim)

\* Variant of the normalisation that stretches every axis to the extent by
\* the axis' own size
normalizePointsPerAxis(points, scale) ==
    LET center == getCenter(points)
        size == getSize(points)
    IN  [k \in 1 .. Len(points) |->
            [a \in Axes |->
                IF maxDim(points) = 0 THEN NaN
                ELSE IF size[a] = 0 THEN 0
                ELSE RoundHalfEven((points[k][a] - center[a])
                                      * RoundHalfEven(scale * NUnit * NUnit, size[a]),
                                   NUnit)]]

\* normalizePoints(points, scale): p.sub(center).multiplyScalar(scale / maxDim)
\* for every point; a box of size zero makes the factor Infinity and every
\* coordinate 0 * Infinity
normalizePoints(points, scale) ==
    LET center == getCenter(points)
    IN  [k \in 1 .. Len(points) |->
            [a \in Axes |->
                IF maxDim(points) = 0 THEN NaN
                ELSE RoundHalfEven((points[k][a] - center[a])
                                      * ScaleFactor(scale, maxDim(points)),
                                   NUnit)]]

\* the point sets normalizePoints is applied to: none, one or two points with
\* whole coordinates; the extents the generators request (8 and 10)
NormCoords == {-1, 0, 2, 5}
NormPoints == {Vec(x * NUnit, y * NUnit, z * NUnit) :
                  x \in NormCoords, y \in NormCoords, z \in {0, 1}}
PointLists ==
    {<<>>} \cup {<<p>> : p \in NormPoints} \cup {<<p, q>> : p \in NormPoints, q \in NormPoints}
Extents == {8, 10}

InitNormalize ==
    /\ Mounted
    /\ \E points \in PointLists, scale \in Extents :
          call = [fn |-> "normalizePoints", points |-> points, scale |-> scale,
                  returned |-> FALSE, result |-> <<>>]

Normalize ==
    /\ call.fn = "normalizePoints"
    /\ ~call.returned
    /\ call' = [call EXCEPT !.returned = TRUE,
                            !.result = normalizePoints(call.points, call.scale)]
    /\ UNCHANGED <<appVars, aiVars, targetVars, liveVars, audioVars, build,
                   frame, ticks, handVars, group>>

NextNormalize == Normalize

SpecNormalize == InitNormalize /\ [][NextNormalize]_vars

\* generateMolecule is called with numPoints = NUM_PARTICLES, 30000 in the
\* program as shipped; MaxPoints bounds the small counts tried beside it
ShippedParticles == 30000
MaxPoints == 7
PointCounts == (0 .. MaxPoints) \cup {ShippedParticles}

\* a fetched structure with an element RADII does not list
RustData == CustomData(1, Molecule(<<"Fe", "O">>, <<<<0, 1, 1>>>>))
\* fetched structures as generateMolecule reads them: a bond without an
\* order, and bonds of order 3 and of order 4
OrderlessData ==
    CustomData(2, AsMolecule(Data(SaltAtoms, <<Bond(<<Num(0), Num(1)>>, 0)>>)))
QuadrupleData ==
    CustomData(3, Molecule(<<"C", "C", "N">>, <<<<0, 1, 4>>, <<1, 2, 3>>>>))

\* the identifiers tried: the catalog, one no catalog entry has, and 'custom'
\* with a fetched structure
MoleculeCalls ==
    {<<type, NullCustom>> : type \in MoleculeIds \cup {"Glucose"}}
        \cup {<<"custom", c>> : c \in {RustData, OrderlessData, QuadrupleData}}

InitMolecule ==
    /\ Mounted
    /\ \E c \in MoleculeCalls, numPoints \in PointCounts :
          call = [fn |-> "generateMolecule", type |-> c[1], numPoints |-> numPoints,
                  customData |-> c[2], returned |-> FALSE,
                  atomPoints |-> <<>>, bondPoints |-> <<>>, cylinders |-> <<>>,
                  length |-> 0]

\* generateMolecule(type, numPoints, customData): the points pushed for each
\* atom and for each bond, and the length of the list returned
GenerateMolecule ==
    /\ call.fn = "generateMolecule"
    /\ ~call.returned
    /\ LET molecule == IF call.type = "custom" /\ call.customData # NullCustom
                       THEN call.customData.mol ELSE MOLECULES(call.type)
       IN  call' = [call EXCEPT
                       !.returned = TRUE,
                       !.atomPoints = IF molecule.defined
                                      THEN AtomPointCounts(molecule, call.numPoints)
                                      ELSE <<>>,
                       !.bondPoints = IF molecule.defined
                                      THEN BondPointCounts(molecule, call.numPoints)
                                      ELSE <<>>,
                       !.cylinders = IF molecule.defined
                                     THEN BondCylinders(molecule, call.numPoints)
                                     ELSE <<>>,
                       !.length = generateMoleculeLength(call.type, call.numPoints,
                                                         call.customData)]
    /\ UNCHANGED <<appVars, aiVars, targetVars, liveVars, audioVars, build,
                   frame, ticks, handVars, group>>

NextMolecule == GenerateMolecule

SpecMolecule == InitMolecule /\ [][NextMolecule]_vars

\* generateKochCurve: recurse(p1, p2, depth) as the call stack it builds.
\* A frame is the number of sub-segments its call has already recursed into;
\* the frame at height h of the stack runs at depth iterations - (h - 1).
iterations == 5

\* the six recurse calls of lines 228-233, by tetrahedron corner
KochEdges == <<<<1, 2>>, <<2, 3>>, <<3, 4>>, <<4, 1>>, <<1, 3>>, <<2, 4>>>>

\* Variant of the subdivision that recurses into three sub-segments
HasNextSegmentThree(done) == done < 3

\* lines 215-218: recurse(p1, p3), (p3, p4), (p4, p5), (p5, p2)
HasNextSegment(done) == done < 4

KochDepth(stack) == iterations - (Len(stack) - 1)

KochCounts == {0, NUM_PARTICLES, ShippedParticles}

\* one mounted application, the one both of whose random draws took seed 0
InitKoch ==
    /\ Mounted
    /\ apiKey
    /\ positions = [i \in Slots |-> InitPoint(i)]
    /\ build.points = RandomPoints(generateText3DLength(N), 0)
    /\ \E numPoints \in KochCounts :
          call = [fn |-> "generateKochCurve", numPoints |-> numPoints,
                  edge |-> 1, stack |-> <<>>,
                  emitted |-> [e \in 1 .. Len(KochEdges) |-> 0],
                  returned |-> FALSE, result |-> <<>>]

KochRest == <<appVars, aiVars, targetVars, liveVars, audioVars, build,
              frame, ticks, handVars, group>>

\* lines 228-233: the next recurse(t, t', iterations) is called
KochStartEdge ==
    /\ call.fn = "generateKochCurve"
    /\ ~call.returned
    /\ call.stack = <<>>
    /\ call.edge <= Len(KochEdges)
    /\ call' = [call EXCEPT !.stack = <<0>>]
    /\ UNCHANGED KochRest

\* lines 200-203: at depth 0 the call pushes p1 and returns
KochEmit ==
    /\ call.fn = "generateKochCurve"
    /\ call.stack # <<>>
    /\ KochDepth(call.stack) = 0
    /\ call' = [call EXCEPT !.stack = SubSeq(call.stack, 1, Len(call.stack) - 1),
                            !.emitted[call.edge] = @ + 1]
    /\ UNCHANGED KochRest

\* lines 205-218: above depth 0 the call recurses into its next sub-segment
KochRecurse ==
    /\ call.fn = "generateKochCurve"
    /\ call.stack # <<>>
    /\ KochDepth(call.stack) > 0
    /\ HasNextSegment(call.stack[Len(call.stack)])
    /\ call' = [call EXCEPT !.stack =
                   Append([call.stack EXCEPT ![Len(call.stack)] = @ + 1], 0)]
    /\ UNCHANGED KochRest

\* line 219: the call returns after its last sub-segment; the return of the
\* outermost call lets the next edge start
KochReturn ==
    /\ call.fn = "generateKochCurve"
    /\ call.stack # <<>>
    /\ KochDepth(call.stack) > 0
    /\ ~HasNextSegment(call.stack[Len(call.stack)])
    /\ call' = [call EXCEPT !.stack = SubSeq(call.stack, 1, Len(call.stack) - 1),
                            !.edge = IF Len(call.stack) = 1 THEN @ + 1 ELSE @]
    /\ UNCHANGED KochRest

\* line 236: return resample(points, numPoints)
KochResample ==
    /\ call.fn = "generateKochCurve"
    /\ ~call.returned
    /\ call.stack = <<>>
    /\ call.edge > Len(KochEdges)
    /\ call' = [call EXCEPT !.returned = TRUE,
                            !.result = resample(SourcePoints(SumSeq(call.emitted)),
                                                call.numPoints)]
    /\ UNCHANGED KochRest

NextKoch ==
    \/ KochStartEdge
    \/ KochEmit
    \/ KochRecurse
    \/ KochReturn
    \/ KochResample

\* the JavaScript engine runs the synchronous call to its end
SpecKoch == InitKoch /\ [][NextKoch]_vars /\ WF_vars(NextKoch)

\* generateMandelbulb and generateQuaternionJulia: numPoints samples, of which
\* the escape-time filter retains kept, then the fill loop
EscapeTimeSamplers == {"mandelbulb", "julia"}

InitSampler ==
    /\ Mounted
    /\ \E gen \in EscapeTimeSamplers, numPoints \in 0 .. MaxPoints :
          \E kept \in 0 .. numPoints :
             call = [fn |-> gen, numPoints |-> numPoints, kept |-> kept,
                     returned |-> FALSE, length |-> 0]

\* the generator returns: the retained samples, and the shell points the
\* fill loop pushed
Sample ==
    /\ call.fn \in EscapeTimeSamplers
    /\ ~call.returned
    /\ call' = [call EXCEPT !.returned = TRUE,
                            !.length = GeneratorLength(call.fn, call.numPoints, call.kept)]
    /\ UNCHANGED <<appVars, aiVars, targetVars, liveVars, audioVars, build,
                   frame, ticks, handVars, group>>

NextSampler == Sample

SpecSampler == InitSampler /\ [][NextSampler]_vars

\* solarSystem.js
PLANET_DATA == <<"sun", "mercury", "venus", "earth", "mars", "jupiter", "saturn",
                 "uranus", "neptune">>

\* generatePlanetParticles: the sun gets three shares; a planet gets one share
\* and a trail of floor(0.3 share) points
generatePlanetParticlesLength(planet, particlesPerPlanet) ==
    IF planet = "sun" THEN 3 * particlesPerPlanet
    ELSE particlesPerPlanet + FloorDiv(3 * particlesPerPlanet, 10)

\* generateSolarSystem(numPoints, time): the points (and colours, pushed in
\* pairs) of every body, and of the asteroid belt, whose loop runs for
\* i < remaining
generateSolarSystemCounts(numPoints) ==
    LET particlesPerPlanet == FloorDiv(numPoints, Len(PLANET_DATA) + 2)
        bodies == [b \in 1 .. Len(PLANET_DATA) |->
                      generatePlanetParticlesLength(PLANET_DATA[b], particlesPerPlanet)]
        remaining == numPoints - SumSeq(bodies)
    IN  [bodies |-> bodies, asteroids |-> Max(0, remaining),
         points |-> SumSeq(bodies) + Max(0, remaining),
         colors |-> SumSeq(bodies) + Max(0, remaining)]

\* the counts generateSolarSystem is tried with: up to MaxShare points per
\* planet, with and without a remainder, and the program's 30000
MaxShare == 5
SolarCounts ==
    {11 * k : k \in 0 .. MaxShare} \cup {11 * k + 5 : k \in 0 .. MaxShare}
        \cup {ShippedParticles}
\* the time argument, in seconds: it turns the planets and changes no count
SolarTimes == {0, 10}

InitSolar ==
    /\ Mounted
    /\ \E numPoints \in SolarCounts, time \in SolarTimes :
          call = [fn |-> "generateSolarSystem", numPoints |-> numPoints,
                  time |-> time, returned |-> FALSE,
                  result |-> generateSolarSystemCounts(0)]

GenerateSolarSystem ==
    /\ call.fn = "generateSolarSystem"
    /\ ~call.returned
    /\ call' = [call EXCEPT !.returned = TRUE,
                            !.result = generateSolarSystemCounts(call.numPoints)]
    /\ UNCHANGED <<appVars, aiVars, targetVars, liveVars, audioVars, build,
                   frame, ticks, handVars, group>>

NextSolar == GenerateSolarSystem

SpecSolar == InitSolar /\ [][NextSolar]_vars

\* text3d.js: the text, the layers of every filled cell, and the number of
\* filled cells (the 1s) of each letter pattern
text == <<"T", "H", "I", "S", " ", "N", "E", "X", "U", "S">>
depth == 3
FilledCells(char) ==
    CASE char = "T" -> 11
      [] char = "H" -> 17
      [] char = "I" -> 11
      [] char = "S" -> 15
      [] char = "N" -> 17
      [] char = "E" -> 18
      [] char = "X" -> 11
      [] char = "U" -> 15
      [] OTHER -> 0

\* voxelPositions.length after lines 109-131
VoxelCount == SumSeq([i \in 1 .. Len(text) |-> FilledCells(text[i]) * depth])

\* line 140
particlesPerVoxel(numParticles) == CeilDiv(numParticles, VoxelCount)

\* points.length when the loop of line 142 reaches voxel v (counted from 1):
\* every earlier voxel took a full share until the budget was used up
LengthAtVoxel(numParticles, v) ==
    Min((v - 1) * particlesPerVoxel(numParticles), numParticles)

\* lines 140-168: voxel v takes
\* Math.min(particlesPerVoxel, numParticles - points.length) points
DistributeText(numParticles) ==
    [v \in 1 .. VoxelCount |->
        Min(particlesPerVoxel(numParticles),
            numParticles - LengthAtVoxel(numParticles, v))]

\* generateText3D(numParticles): the points of every voxel, those the fill
\* loop of lines 171-188 adds, and the lengths of the two lists returned
generateText3DCounts(numParticles) ==
    LET distributed == LengthAtVoxel(numParticles, VoxelCount + 1)
        filled == Max(0, numParticles - distributed)
    IN  [perVoxel |-> DistributeText(numParticles), filled |-> filled,
         points |-> distributed + filled,
         colors |-> distributed + filled]

\* the counts generateText3D is tried with: the smallest, those around the
\* number of voxels, and the program's 30000
TextCounts ==
    (0 .. MaxPoints) \cup {VoxelCount + k : k \in -1 .. MaxPoints}
        \cup {ShippedParticles}

InitText ==
    /\ Mounted
    /\ \E numParticles \in TextCounts :
          call = [fn |-> "generateText3D", numParticles |-> numParticles,
                  returned |-> FALSE, result |-> generateText3DCounts(0)]

GenerateText3D ==
    /\ call.fn = "generateText3D"
    /\ ~call.returned
    /\ call' = [call EXCEPT !.returned = TRUE,
                            !.result = generateText3DCounts(call.numParticles)]
    /\ UNCHANGED <<appVars, aiVars, targetVars, liveVars, audioVars, build,
                   frame, ticks, handVars, group>>

NextText == GenerateText3D

SpecText == InitText /\ [][NextText]_vars

----------------------------------------------------------------------------
(* Properties of the builder (SpecBuild) *)

\* C1: after every rebuild, slot i below the generated point count L holds
\* generated point i; every slot from L on has position (0,0,0) and colour
\* (0,0,0); the buffers have N slots, so points of index >= N are dropped.
C1_FillRule ==
    /\ DOMAIN targetPositions = Slots
    /\ DOMAIN targetColors = Slots
    /\ \A i \in Slots :
          IF i < Len(build.points)
          THEN targetPositions[i] = build.points[i + 1]
          ELSE targetPositions[i] = ZeroVec /\ targetColors[i] = ZeroVec

\* a rebuild whose generator returned fewer than N points: the first slot
\* holds the first point, the last slot is zeroed
C1_Padded ==
    /\ build.ran
    /\ Len(build.points) > 0
    /\ Len(build.points) < N
    /\ targetPositions[0] = build.points[1]
    /\ targetPositions[0] # ZeroVec
    /\ targetPositions[N - 1] = ZeroVec
    /\ targetColors[N - 1] = ZeroVec

\* C7: in math mode a shape that is no key of the catalog is drawn by the Koch
\* generator, and in artifact mode a shape other than pyramid, column, vase
\* is drawn by the pyramid generator; a known shape is drawn by its own.
C7_ShapeFallback ==
    /\ mode = "math" =>
          build.calls = <<IF shape \in mathShapes THEN shape ELSE "koch">>
    /\ mode = "artifact" =>
          build.calls = <<IF shape \in ArtifactButtons THEN shape ELSE "pyramid">>

\* math mode entered with the shape the artifact panel left behind
C7_PyramidInMath ==
    /\ build.ran
    /\ mode = "math"
    /\ shape = "pyramid"
    /\ build.calls = <<"koch">>

\* C8: in molecule mode an identifier outside the catalog (Benzene, or custom
\* with no custom data) makes generateMolecule return no points and no
\* colours, and the rebuild leaves all N slots at zero position and colour.
C8_UnknownMoleculeEmpty ==
    (/\ mode = "molecule"
     /\ moleculeType \notin MoleculeIds
     /\ ~(moleculeType = "custom" /\ customMolecule # NullCustom))
    => /\ build.calls = <<"molecule">>
       /\ build.points = <<>>
       /\ build.colors = <<>>
       /\ \A i \in Slots : targetPositions[i] = ZeroVec /\ targetColors[i] = ZeroVec

\* the molecule branch has just run for custom with no custom data
C8_CustomWithoutData ==
    /\ build.ran
    /\ mode = "molecule"
    /\ moleculeType = "custom"
    /\ customMolecule = NullCustom
    /\ build.calls = <<"molecule">>

----------------------------------------------------------------------------
(* Properties of the panel and the builder (Spec) *)

\* C2: every step that changes mode, shape, molecule type or custom molecule
\* runs the builder once with exactly one generator invocation, and the
\* builder runs in no other step.
C2_OneRebuildOneGenerator ==
    [][/\ appVars' # appVars => build'.ran /\ Len(build'.calls) = 1
       /\ build'.ran => appVars' # appVars]_vars

\* C6: whatever the mode, the last rebuild invoked a generator.
C6_SomeGenerator == Len(build.calls) >= 1

----------------------------------------------------------------------------
(* Properties of rebuilds and frame ticks interleaved (SpecFrames) *)

\* C3: a step in which the builder runs leaves live positions and colours
\* unchanged; live values change only in a frame tick.
C3_LiveOnlyInTick ==
    [][/\ build'.ran => liveVars' = liveVars
       /\ liveVars' # liveVars => ticks' = ticks + 1]_vars

\* a rebuild has run after a tick moved the live values, which it left off target
C3_RebuildAfterTick ==
    /\ build.ran
    /\ ticks >= 1
    /\ ~frame.threw
    /\ positions # targetPositions

C9_NoSnapshotNoError ==
    /\ (mode = "audio" /\ ~dataArray) => GetAudioData = "null"
    /\ ~frame.threw

----------------------------------------------------------------------------
(* Properties of the animator (SpecAnim) *)

\* the step factor is strictly between 0 and 1
InUnitInterval(speed) == 0 < speed[1] /\ speed[1] < speed[2]

\* the channels of both live buffers: <<before, target, after>>
Channels ==
    {<<positions[i][a], targetPositions[i][a], positions'[i][a]>> :
        i \in Slots, a \in Axes}
      \cup {<<colors[i][a], targetColors[i][a], colors'[i][a]>> :
              i \in Slots, a \in Axes}

\* a frame tick of a non-audio mode with step factor in (0,1)
MorphStep ==
    /\ ticks' = ticks + 1
    /\ mode # "audio"
    /\ InUnitInterval(Speed(frame'.delta))

\* C5 as stated: in such a tick every channel ends strictly nearer to its
\* target than it started and not beyond it.
C5_StrictlyNearer ==
    [][MorphStep =>
          \A ch \in Channels :
              /\ Abs(ch[2] - ch[3]) < Abs(ch[2] - ch[1])
              /\ Min(ch[1], ch[2]) <= ch[3]
              /\ ch[3] <= Max(ch[1], ch[2])]_vars

\* C5, amended: in such a tick every channel v becomes v + (target - v) * s
\* to within half a unit of the buffer's precision (0 -> 5 -> 7.5 for target
\* 10 and s = 0.5, exactly), stays between v and the target, is never farther
\* from the target than before, and is strictly nearer when the step
\* (target - v) * s is at least one unit of precision; a channel on its
\* target stays there.
C5_Approaches ==
    [][MorphStep =>
          LET s == Speed(frame'.delta)
          IN  \A ch \in Channels :
                  LET v == ch[1]
                      t == ch[2]
                      w == ch[3]
                  IN  /\ 2 * Abs(w * s[2] - (v * s[2] + (t - v) * s[1])) <= s[2]
                      /\ Min(v, t) <= w
                      /\ w <= Max(v, t)
                      /\ Abs(t - w) <= Abs(t - v)
                      /\ Abs(t - v) * s[1] >= s[2] => Abs(t - w) < Abs(t - v)
                      /\ v = t => w = t
                      /\ (t = 10 * Unit /\ 2 * s[1] = s[2] /\ v = 0) => w = 5 * Unit
                      /\ (t = 10 * Unit /\ 2 * s[1] = s[2] /\ v = 5 * Unit)
                            => 2 * w = 15 * Unit]_vars

\* two ticks of step factor 0.5 have taken a coordinate from 0 to 7.5, target 10
C5_SevenAndAHalf ==
    /\ ticks = 2
    /\ frame.mode # "audio"
    /\ frame.delta = <<1, 6>>
    /\ \E i \in Slots :
          /\ targetPositions[i][1] = 10 * Unit
          /\ 2 * positions[i][1] = 15 * Unit

\* the contents a target buffer can have
AltTargetPositions ==
    {FillPositions(RandomPoints(len, seed)) : len \in 0 .. N, seed \in Seeds}
AltTargetColors ==
    {FillColors(RandomPoints(len, seed), RandomColors(len, seed)) :
        len \in 0 .. N, seed \in Seeds}

\* a frame tick of audio mode that ran its loop
AudioStep ==
    /\ ticks' = ticks + 1
    /\ mode = "audio"
    /\ ~frame'.threw

SnapshotStep == AudioStep /\ frame'.audio # NoAudio

\* the byte of the snapshot of frame f that particle i reads
BinByte(f, i) == f.audio[(i % Len(f.audio)) + 1]

----------------------------------------------------------------------------
(* Properties of the gesture step (SpecGesture) *)

\* the transform channels of the group: <<before, signal, after>>
GroupChannels ==
    {<<group.rotation[a], gesture.rotation[a], group'.rotation[a]>> : a \in 1 .. 2}
      \cup {<<group.scale, gesture.scale, group'.scale>>}
      \cup {<<group.position[a], gesture.position[a], group'.position[a]>> : a \in Axes}

\* C12: a frame tick moves rotation, scale and position of the group one
\* tenth of the way toward the gesture signal and leaves the store alone; the
\* live buffers it produces are a function of the live buffers, the target
\* buffers, the mode, the snapshot and delta only; a step that changes the
\* gesture signal changes neither the live buffers nor the group, and the
\* group changes in frame ticks only.
C12_GestureMovesGroupOnly ==
    [][/\ (ticks' = ticks + 1 /\ ~frame'.threw) =>
             /\ \A ch \in GroupChannels :
                   2 * Abs(10 * ch[3] - (9 * ch[1] + ch[2])) <= 10
             /\ positions' = AnimatePositions(positions, targetPositions, mode,
                                              frame'.audio, Speed(frame'.delta))
             /\ colors' = AnimateColors(colors, targetColors, mode,
                                        frame'.audio, Speed(frame'.delta))
             /\ gesture' = gesture
       /\ gesture' # gesture => liveVars' = liveVars /\ group' = group
       /\ group' # group => ticks' = ticks + 1]_vars

\* a frame tick has moved the group toward a signal written by the hand loop
C12_GroupOnItsWay ==
    /\ ticks >= 1
    /\ gesture # DefaultGesture
    /\ group # DefaultGroup
    /\ group.scale # gesture.scale
    /\ positions # [i \in Slots |-> InitPoint(i)]

\* C13: while hand control is off, a frame tick leaves the group's rotation,
\* scale and position unchanged.
C13_IdleGroupUnmoved ==
    [][(ticks' = ticks + 1 /\ ~useHandControl) => group' = group]_vars

----------------------------------------------------------------------------
(* Properties of AI requests (SpecAI) *)

\* the answer is no structure, or a structure with one of the defects named:
\* no object, no atoms array, no atoms, an atom that is no object or has no
\* element or no three numeric coordinates, a bond that is no pair of numbers
\* or whose index lies outside the atoms
Defective(response) ==
    \/ response.kind # "json"
    \/ LET data == response.data
           n == Len(data.atoms)
       IN  \/ ~data.object
           \/ ~data.atomsArray
           \/ n = 0
           \/ \E k \in 1 .. n :
                 \/ ~data.atoms[k].obj
                 \/ data.atoms[k].element = ""
                 \/ Len(data.atoms[k].pos) # 3
                 \/ \E j \in 1 .. Len(data.atoms[k].pos) :
                       data.atoms[k].pos[j].kind \notin {"number", "fraction"}
           \/ /\ data.bondsArray
              /\ \E k \in 1 .. Len(data.bonds) :
                    \/ ~data.bonds[k].array
                    \/ Len(data.bonds[k].idx) < 2
                    \/ \E j \in 1 .. Len(data.bonds[k].idx) :
                          \/ data.bonds[k].idx[j].kind = "string"
                          \/ data.bonds[k].idx[j].kind \in {"number", "fraction"}
                               /\ (data.bonds[k].idx[j].v < 0 \/ data.bonds[k].idx[j].v >= n)

\* C14: when a request is answered with a failure or a defective structure,
\* mode, shape, molecule type and custom molecule stay as they were, the error
\* is a non-empty message, isLoading ends false, and the builder does not run.
C14_RejectionKeepsSelection ==
    [][(isLoading /\ ~isLoading' /\ Defective(reply')) =>
          /\ appVars' = appVars
          /\ error' # Null
          /\ error' # ""
          /\ error' \in KeptMessages \cup {GenericMessage}
          /\ ~build'.ran
          /\ targetVars' = targetVars]_vars

\* a structure with a bond index out of range has been rejected while a
\* custom molecule of an earlier request is shown
C14_RejectedAfterCustom ==
    /\ reply.kind = "json"
    /\ Defective(reply)
    /\ ~isLoading
    /\ error = "Invalid bond: indices out of range"
    /\ moleculeType = "custom"
    /\ customMolecule # NullCustom

\* C15: for every structure validateMoleculeData accepts, generateMolecule
\* ('custom', N, structure) raises no error, and no rebuild ends in one.
C15_AcceptedNeverThrows ==
    /\ (reply.kind = "json" /\ validateMoleculeData(reply.data) = "ok") =>
          ~generateMoleculeThrows("custom", CustomData(1, AsMolecule(reply.data)))
    /\ ~build.threw

\* C16: in every mode, the point list and the colour list handed to the fill
\* loop have equal length, math mode included.
C16_EqualLengths ==
    (build.ran /\ ~build.threw) => Len(build.points) = Len(build.colors)

----------------------------------------------------------------------------
(* Properties of resample (SpecResample) *)

\* what holds of a returned resample whichever way the index is rounded: an
\* empty source gives an empty list; otherwise targetCount entries, the first
\* being source[0], and the indices used non-decreasing
ResampleShape(IndexOf(_)) ==
    LET L == Len(call.points)
        T == call.targetCount
    IN  IF L = 0 THEN call.result = <<>>
        ELSE /\ Len(call.result) = T
             /\ \A i \in 0 .. T - 1 :
                   /\ IndexOf(i) \in 0 .. L - 1
                   /\ call.result[i + 1] = call.points[IndexOf(i) + 1]
                   /\ i > 0 => IndexOf(i - 1) <= IndexOf(i)
             /\ T > 0 => call.result[1] = call.points[1]

\* C17: resample(source, T) on a non-empty source of length L returns exactly
\* T entries, entry i being source[floor(i * L / T)]: entry 0 is source[0],
\* every index used is in 0..L-1, and the indices are non-decreasing in i; on
\* an empty source it returns an empty list.
C17_ExactQuotient ==
    (call.fn = "resample" /\ call.returned) =>
        LET Exact(i) == FloorDiv(i * Len(call.points), call.targetCount)
        IN  ResampleShape(Exact)

\* C17 (amended): as above, except that entry i is source[k] with k the
\* double-precision value of floor((i / T) * L): k is floor(i * L / T), or one
\* less than it at some i > 0 where T divides i * L.
C17_RoundedQuotient ==
    (call.fn = "resample" /\ call.returned) =>
        LET L == Len(call.points)
            T == call.targetCount
            Used(i) == call.result[i + 1]
        IN  /\ ResampleShape(Used)
            /\ L > 0 =>
                  \A i \in 0 .. T - 1 :
                     \/ Used(i) = FloorDiv(i * L, T)
                     \/ /\ Used(i) = FloorDiv(i * L, T) - 1
                        /\ i > 0
                        /\ (i * L) % T = 0

\* resample of 22 points to 22 has returned, and entry 15 is source[14]
C17_SlippedEntry ==
    /\ call.fn = "resample"
    /\ call.returned
    /\ Len(call.points) = 22
    /\ call.targetCount = 22
    /\ call.result[16] = call.points[15]

----------------------------------------------------------------------------
(* Properties of normalizePoints (SpecNormalize) *)

\* normalizePoints has returned for a point set whose box has a longest
\* dimension above zero
Normalized ==
    /\ call.fn = "normalizePoints"
    /\ call.returned
    /\ maxDim(call.points) > 0

\* every returned coordinate is the input coordinate less the centre of the
\* input box, times the one factor scale / maxDim
UniformlyMapped ==
    /\ Len(call.result) = Len(call.points)
    /\ \A k \in 1 .. Len(call.points) : \A a \in Axes :
          call.result[k][a] =
              RoundHalfEven((call.points[k][a] - getCenter(call.points)[a])
                               * ScaleFactor(call.scale, maxDim(call.points)),
                            NUnit)

\* twice the rounding error normalizePoints can leave on a box dimension:
\* half a unit on the factor over half the longest dimension, and half a unit
\* on each of the two products
RoundingSlack == maxDim(call.points) + 2 * NUnit

\* C18: normalizePoints applied to a point set whose bounding box has a
\* non-zero longest dimension returns a point set of the same length whose
\* bounding-box centre is the origin and whose longest bounding-box dimension
\* equals the requested extent, every coordinate having been translated by the
\* same centre and multiplied by the same single factor.
C18_ExactExtent ==
    Normalized =>
        /\ UniformlyMapped
        /\ getCenter(call.result) = ZeroVec
        /\ maxDim(call.result) = call.scale * NUnit

\* C18 (amended): as above, the centre being the origin and the longest
\* dimension being the requested extent up to the rounding of the arithmetic.
C18_ExtentUpToRounding ==
    Normalized =>
        /\ UniformlyMapped
        /\ \A a \in Axes :
              2 * NUnit * Abs(BoxMin(call.result, a) + BoxMax(call.result, a))
                 <= RoundingSlack
        /\ 2 * NUnit * Abs(maxDim(call.result) - call.scale * NUnit) <= RoundingSlack

\* two points 6 apart have been normalised to extent 10, and the returned
\* box is not 10 long
C18_RoundedExtent ==
    /\ Normalized
    /\ Len(call.points) = 2
    /\ maxDim(call.points) = 6 * NUnit
    /\ call.scale = 10
    /\ maxDim(call.result) # 10 * NUnit

----------------------------------------------------------------------------
(* Properties of generateMolecule (SpecMolecule) *)

\* C19: for type 'H2O' and N = 30000 the molecule generator does not
\* underproduce: it returns N points (21000 atom points and 9000 bond points),
\* so the rebuild zero-pads no target slot.
C19_WaterFillsEverySlot ==
    (/\ call.fn = "generateMolecule"
     /\ call.returned
     /\ call.type = "H2O"
     /\ call.numPoints = ShippedParticles) =>
        /\ SumSeq(call.atomPoints) = 21000
        /\ SumSeq(call.bondPoints) = 9000
        /\ call.length = call.numPoints
        /\ Max(0, call.numPoints - call.length) = 0

----------------------------------------------------------------------------
(* Properties of generateKochCurve (SpecKoch) *)

\* the recurse calls of edge e: not yet made, running, or returned
KochEdgeDone(e) == e < call.edge

\* the steps a call of recurse at depth d takes from its entry to its return
RECURSIVE KochCallSteps(_)
KochCallSteps(d) == IF d = 0 THEN 1 ELSE 4 * (1 + KochCallSteps(d - 1)) + 1

\* the steps the generator still has to take: what every call on the stack
\* has left once the call above it returns, the edges not yet started, and
\* the resampling
KochStepsLeft ==
    LET FrameLeft(h) ==
            LET d == iterations - (h - 1)
            IN  IF d = 0 THEN 1
                ELSE (4 - call.stack[h]) * (1 + KochCallSteps(d - 1)) + 1
        edgesLeft == IF call.stack = <<>> THEN Len(KochEdges) + 1 - call.edge
                     ELSE Len(KochEdges) - call.edge
    IN  SumSeq([h \in 1 .. Len(call.stack) |-> FrameLeft(h)])
          + edgesLeft * (1 + KochCallSteps(iterations))
          + (IF call.returned THEN 0 ELSE 1)

\* one of the five steps of the generator can be taken (their guards)
KochCanStep ==
    \/ call.stack = <<>> /\ call.edge <= Len(KochEdges)
    \/ call.stack = <<>> /\ call.edge > Len(KochEdges) /\ ~call.returned
    \/ call.stack # <<>> /\ KochDepth(call.stack) = 0
    \/ call.stack # <<>> /\ KochDepth(call.stack) > 0
          /\ call.stack[Len(call.stack)] \in 0 .. 4

\* C21: the recursion of the Koch generator terminates for every edge (every
\* step of the generator lowers the number of steps left by one, no step is
\* left exactly when it has returned, and it is never stuck before); each
\* of the 6 edges emits exactly 4^5 = 1024 points, 6144 in all and in edge
\* order (no edge emits before the one before it has returned), and the
\* generator returns exactly N points.
C21_KochTerminates ==
    /\ [][KochStepsLeft' = KochStepsLeft - 1]_vars
    /\ [](KochStepsLeft >= 0)
    /\ []((KochStepsLeft = 0) <=> call.returned)
    /\ [](~call.returned => KochCanStep)
    /\ [](call.fn = "generateKochCurve" =>
             /\ Len(KochEdges) = 6
             /\ \A e \in 1 .. Len(KochEdges) :
                   /\ KochEdgeDone(e) => call.emitted[e] = 1024
                   /\ e > call.edge => call.emitted[e] = 0
                   /\ call.emitted[e] <= 1024
             /\ call.returned =>
                   /\ SumSeq(call.emitted) = 6144
                   /\ Len(call.result) = call.numPoints)

\* the generator has returned the 30000 points asked of it, the last of them
\* a point of the sixth edge
C21_KochReturned ==
    /\ call.fn = "generateKochCurve"
    /\ call.returned
    /\ call.numPoints = ShippedParticles
    /\ Len(call.result) = ShippedParticles
    /\ call.result[ShippedParticles] >= 5 * 1024

----------------------------------------------------------------------------
(* Properties of the math catalog (SpecBuild) *)

\* C22: every generator of the math catalog, the Koch curve included, passes
\* its points through normalization before returning them, and all of them
\* use the same target extent.
C22_AllNormalizedAlike ==
    (build.ran /\ ~build.threw /\ build.props[1] = "math") =>
        /\ GeneratorExtent(build.calls[1]) # Null
        /\ \A gen \in Generators \ {"koch"} :
              GeneratorExtent(build.calls[1]) = GeneratorExtent(gen)

----------------------------------------------------------------------------
(* Properties of the escape-time samplers (SpecSampler) *)

\* C23: for the Mandelbulb and the quaternion Julia generators and every N,
\* the number of returned points L satisfies N/2 <= L <= N.
C23_AtLeastHalf ==
    (call.fn \in EscapeTimeSamplers /\ call.returned) =>
        /\ 2 * call.length >= call.numPoints
        /\ call.length <= call.numPoints
        /\ call.length >= call.kept

\* the structure the returned call of generateMolecule drew
Drawn ==
    IF call.type = "custom" /\ call.customData # NullCustom
    THEN call.customData.mol ELSE MOLECULES(call.type)

\* C24: every bond gets the same budget floor(0.3 * N / number of bonds); a
\* bond of order k in {1,2,3} is drawn as exactly k parallel cylinders of
\* floor(budget / k) points each (order 1: one on the axis; order 2: two at
\* +/- half the separation; order 3: one on the axis and two at +/- the
\* separation), and a missing order is treated as 1.
C24_BondCylinders ==
    (call.fn = "generateMolecule" /\ call.returned /\ Drawn.defined) =>
        LET bonds == Drawn.bonds
            budget == IF Len(bonds) = 0 THEN 0
                      ELSE (3 * call.numPoints) \div (10 * Len(bonds))
            Offsets(b) == [k \in 1 .. Len(call.cylinders[b]) |->
                              call.cylinders[b][k].offset]
        IN  /\ Len(call.cylinders) = Len(bonds)
            /\ \A b \in 1 .. Len(bonds) :
                  LET k == bonds[b][3]
                  IN  /\ k \in {1, 2, 3} =>
                            /\ Len(call.cylinders[b]) = k
                            /\ \A c \in 1 .. k :
                                  call.cylinders[b][c].points = budget \div k
                            /\ call.bondPoints[b] = k * (budget \div k)
                      /\ k = 1 => Offsets(b) = <<0>>
                      /\ k = 2 => Offsets(b) = <<1, -1>>
                      /\ k = 3 => Offsets(b) = <<0, 2, -2>>
            /\ call.customData = OrderlessData =>
                  /\ Len(call.cylinders[1]) = 1
                  /\ call.cylinders[1][1] = [offset |-> 0, points |-> budget]

\* the structure with a triple bond has been drawn for 30000 points: three
\* cylinders of 1500 points each
C24_TripleBondDrawn ==
    /\ call.fn = "generateMolecule"
    /\ call.returned
    /\ call.customData = QuadrupleData
    /\ call.numPoints = ShippedParticles
    /\ Len(call.cylinders[2]) = 3
    /\ \A c \in 1 .. 3 : call.cylinders[2][c].points = 1500

\* C29: for every built-in molecule and every accepted custom molecule, and
\* every N, generateMolecule returns at most N points: the atom points total
\* at most floor(0.7 * N) and the bond points at most floor(0.3 * N),
\* whatever the bond orders are.
C29_WithinBudget ==
    (call.fn = "generateMolecule" /\ call.returned) =>
        /\ SumSeq(call.atomPoints) <= (7 * call.numPoints) \div 10
        /\ SumSeq(call.bondPoints) <= (3 * call.numPoints) \div 10
        /\ call.length = SumSeq(call.atomPoints) + SumSeq(call.bondPoints)
        /\ call.length <= call.numPoints

\* carbon dioxide, two double bonds, has been generated for 30000 points and
\* uses 29998 of them
C29_DoubleBondsDrawn ==
    /\ call.fn = "generateMolecule"
    /\ call.returned
    /\ call.type = "CO2"
    /\ call.numPoints = ShippedParticles
    /\ call.bondPoints = <<4500, 4500>>
    /\ call.length = 29998

----------------------------------------------------------------------------
(* Properties of generateSolarSystem (SpecSolar) *)

\* C25: generateSolarSystem(N, t) returns exactly N points and N colours for
\* every N: the sun, the eight planets and their trails together use at most
\* N points and the asteroid belt fills the remaining budget.
C25_ExactlyN ==
    (call.fn = "generateSolarSystem" /\ call.returned) =>
        /\ call.result.points = call.numPoints
        /\ call.result.colors = call.numPoints
        /\ SumSeq(call.result.bodies) <= call.numPoints
        /\ call.result.asteroids = call.numPoints - SumSeq(call.result.bodies)

----------------------------------------------------------------------------
(* Properties of generateText3D (SpecText) *)

\* C26: generateText3D(N) returns exactly N points and N colours for every
\* N >= 0, and for every N that is at least the number of active voxels each
\* active voxel receives at least one point and no voxel receives more than
\* ceil(N / number of active voxels) points from the even distribution.
C26_EveryVoxelServed ==
    (call.fn = "generateText3D" /\ call.returned) =>
        /\ call.result.points = call.numParticles
        /\ call.result.colors = call.numParticles
        /\ call.numParticles >= VoxelCount =>
              \A v \in 1 .. VoxelCount :
                 /\ call.result.perVoxel[v] >= 1
                 /\ call.result.perVoxel[v] * VoxelCount
                       < call.numParticles + VoxelCount

\* the queries C27 speaks of: empty, longer than 100 characters, or holding a
\* character that is no letter, digit or whitespace and none of - ' . ( )
OutOfForm(query) ==
    \/ query = <<>>
    \/ Len(query) > 100
    \/ \E i \in 1 .. Len(query) :
          /\ \A k \in 1 .. 26 : query[i] # LowerCase[k] /\ query[i] # UpperCase[k]
          /\ query[i] \notin Digits \cup Whitespace \cup {"-", "'", ".", "(", ")"}

\* C27: a click on the generate button with a query that is empty, longer than
\* 100 characters or holds a character outside letters, digits, whitespace and
\* - ' . ( ) sets the error message and nothing else: no call of
\* fetchMoleculeData is made, so no request goes out, and isLoading,
\* customMolecule and moleculeType stay as they were; no call in flight ever
\* carries such a query.
C27_RejectedBeforeRequest ==
    /\ [][(OutOfForm(moleculeQuery) /\ (GenerateRejected \/ GenerateStart)) =>
              /\ error' # Null
              /\ error' # ""
              /\ pending' = pending
              /\ isLoading' = isLoading
              /\ customMolecule' = customMolecule
              /\ moleculeType' = moleculeType
              /\ reply' = reply]_vars
    /\ [](\A i \in 1 .. Len(pending) : ~OutOfForm(pending[i]))

\* a name of 101 characters has been turned down with the message of line 33,
\* with a key in the environment and nothing in flight
C27_LongNameRejected ==
    /\ Len(moleculeQuery) = 101
    /\ apiKey
    /\ error = "Molecule name is too long (max 100 characters)."
    /\ pending = <<>>
    /\ ~isLoading
    /\ customMolecule = NullCustom

\* C28: at most one call of fetchMoleculeData is unsettled at any time;
\* isLoading is true exactly while one is; and whenever a call settles, by
\* resolving or by rejecting, isLoading is false afterwards and the generate
\* button is enabled again.
C28_OneRequestInFlight ==
    /\ [](Len(pending) <= 1)
    /\ [](isLoading <=> pending # <<>>)
    /\ [][(Len(pending') < Len(pending)) => (~isLoading' /\ ~Disabled')]_vars

\* a request went out, was answered with an HTTP failure, and the button is
\* enabled again with the text still in the input
C28_SettledAndEnabled ==
    /\ reply = Reply("http")
    /\ error = "Failed to generate molecule data. Please try again."
    /\ moleculeQuery = WaterQuery
    /\ pending = <<>>
    /\ ~isLoading
    /\ ~Disabled

\* a frame tick whose loop ran the standard morphing of positions and colours
StandardStep ==
    /\ ticks' = ticks + 1
    /\ mode # "audio"

\* C30: on every frame tick the step factor 3.0 * delta is strictly below 1,
\* and in the standard morphing no live position or colour passes its target
\* or ends farther from it than it started.
C30_StepBelowOne ==
    [][(ticks' = ticks + 1) =>
          LET s == Speed(frame'.delta)
          IN  /\ s[1] < s[2]
              /\ StandardStep =>
                    \A ch \in Channels :
                        /\ Min(ch[1], ch[2]) <= ch[3]
                        /\ ch[3] <= Max(ch[1], ch[2])
                        /\ Abs(ch[2] - ch[3]) <= Abs(ch[2] - ch[1])]_vars

====
